---- MODULE Spec2Model ----
(***************************************************************************)
(* A model of the audio pipeline of app/services/youtube_processor.py:     *)
(* extract_video_id, frame_generator, vad_collector, split_with_vad,       *)
(* enhance_audio_chunked, download_audio, process_video and                *)
(* process_video_with_database.                                            *)
(*                                                                         *)
(* Time is kept in integer milliseconds (the code uses float seconds);     *)
(* byte offsets and sample counts are integers as in the code.             *)
(* Each entry point has its own specification over the same variables:     *)
(*   SpecFrames   frame_generator called on a PCM buffer                   *)
(*   SpecUrl      extract_video_id called on a URL                         *)
(*   SpecVad      vad_collector called on a frame sequence                 *)
(*   SpecVadWide  vad_collector with a window of eleven frames             *)
(*   SpecVadDefault vad_collector with the window of ten frames            *)
(*   SpecScenario vad_collector on 20 s with speech from 5.0 s to 8.0 s    *)
(*   SpecSplit    the clip loop of split_with_vad                          *)
(*   SpecEnhance  enhance_audio_chunked called directly                    *)
(*   Spec         process_video (download, enhance, resample, split)       *)
(*   SpecDb       process_video_with_database                              *)
(*   SpecStore    save_audio_clip, then process_video_with_database         *)
(*   SpecServer   the routes of server/app/routes/youtube.py, two requests  *)
(***************************************************************************)
EXTENDS Integers, Sequences, FiniteSets, TLC

VARIABLES
    \* ---- frame_generator
    fg_pc,              \* "loop" | "done"
    fg_sample_rate,     \* argument sample_rate
    fg_frame_ms,        \* argument frame_duration_ms
    fg_len,             \* len(audio), bytes
    fg_offset,          \* local offset
    fg_timestamp,       \* local timestamp, in byte ticks (1 tick = 1/(2*sample_rate) s)
    fg_frames,          \* the frames yielded so far: [lo, hi, timestamp, duration]
    \* ---- vad_collector
    vad_pc,             \* "loop" | "done" | "raised"
    vad_input,          \* which frames and classifier the call is given:
                        \*   "any" | "wide" | "default" | "scenario"
    frame_duration_ms,  \* argument
    padding_duration_ms,\* argument
    frame_index,        \* how many frames the for loop has consumed
    is_speech,          \* local is_speech: the classifier's answer for the last frame consumed
    ring_buffer,        \* deque of [frame, speech]
    triggered,
    voiced_frames,
    segments,           \* list of <<segment_start, segment_end>>, ms
    voiced_log,         \* history: timestamps of the frames ever appended to voiced_frames
    \* ---- split_with_vad, from line 274 on
    split_pc,           \* "loop" | "done" | "raised"
    split_segments,     \* segments, as vad_collector returned them: <<start, end>>, ms
    seg_index,          \* how many segments the for loop has consumed
    start_padding,      \* argument, ms
    end_padding,        \* argument, ms
    clip_counter,
    clips_data,         \* list of clip records
    clip_files,         \* the clip files present in clips_output_dir, by name
    \* ---- enhance_audio_chunked
    enh_pc,             \* "idle" | "load" | "loop" | "returned" | "raised"
    chunk_duration_seconds, \* argument
    total_samples,      \* audio.shape[1]
    chunk_index,        \* i of the for loop
    enhanced_chunks,    \* list of [lo, hi, enhanced]: the window a tensor came from
    saved_samples,      \* samples of the waveform save_audio wrote, -1 before
    enh_exc,            \* the exception enhance_audio_chunked raised, "none" if none
    chunk_fail_log,     \* history: <<i, what raised>> for each per-chunk try block that raised
    \* ---- process_video and download_audio
    pc,                 \* the statement process_video is at
    exc,                \* the exception propagating out of process_video, "none" if none
    temp_file,          \* whether temp_audio_path exists
    raw_file,           \* the raw download <tmp>_raw.<ext>: "none" | "known_ext" | "other_ext"
    stage_log,          \* history: the stages process_video has started, in order
    result,             \* what the return statement of process_video evaluated: "none" | "clips"
    \* ---- extract_video_id
    url,                \* argument youtube_url, as a sequence of tokens
    url_pc,             \* "idle" | "call" | "returned" | "raised"
    video_id,           \* the id returned, <<>> before and when ValueError is raised
    \* ---- process_video_with_database and the persistence it reads
    db_pc,              \* "idle" | "extract_video_id" | "check" | "fetch_clips" | "process_video"
                        \*   | "in_process_video" | "returned" | "raised"
    check_existing,     \* argument
    db_video,           \* persistence: whether a YouTubeVideo row with the id is stored
    db_clips,           \* persistence: the Audio rows of that video
    is_new_video,       \* local is_new_video
    returned_clips,     \* the clips_data built from the Audio rows
    pv_calls,           \* history: how many times process_video was called
    \* ---- DatabaseService.save_audio_clip
    saved_inputs,       \* history: the clip_data each Audio row of db_clips was saved from
    save_errors,        \* history: how many save_audio_clip calls raised
    \* ---- the server: routes/youtube.py on one asyncio event loop
    task_pc,            \* per request: the statement its coroutine is at
    task_route,         \* per request: "split" | "process"
    running,            \* the coroutine the event loop thread is executing, 0 if none
    youtube_processor,  \* the module global: 0 is None, else the instance
    model_loads,        \* history: how many times init_df() returned a model handle
    task_proc,          \* per request: the instance its pipeline invocation runs on, 0 before
    video_rows,         \* persistence: the YouTube_Video rows with the id, by inserting request
    saved_video,        \* per request: the row save_video_metadata returned, 0 before
    task_clips,         \* per request: clips_data as process_video_with_database returned it
    response,           \* per request: "none" | "200" | "409" | "500"
    total_clips,        \* per request: total_clips of the response, -1 if none
    unrelated_served    \* history: GET /health requests answered

fgVars == <<fg_pc, fg_sample_rate, fg_frame_ms, fg_len, fg_offset, fg_timestamp, fg_frames>>
vadVars == <<vad_pc, vad_input, frame_duration_ms, padding_duration_ms, frame_index,
             is_speech, ring_buffer, triggered, voiced_frames, segments, voiced_log>>
splitVars == <<split_pc, split_segments, seg_index, start_padding, end_padding,
               clip_counter, clips_data, clip_files>>
enhVars == <<enh_pc, chunk_duration_seconds, total_samples, chunk_index, enhanced_chunks,
             saved_samples, enh_exc, chunk_fail_log>>
pvVars == <<pc, exc, temp_file, raw_file, stage_log, result>>
urlVars == <<url, url_pc, video_id>>
dbVars == <<db_pc, check_existing, db_video, db_clips, is_new_video, returned_clips, pv_calls>>
storeVars == <<saved_inputs, save_errors>>
srvVars == <<task_pc, task_route, running, youtube_processor, model_loads, task_proc,
             video_rows, saved_video, task_clips, response, total_clips, unrelated_served>>
vars == <<fgVars, vadVars, splitVars, enhVars, pvVars, urlVars, dbVars, storeVars, srvVars>>
notFg == <<vadVars, splitVars, enhVars, pvVars, urlVars, dbVars, storeVars, srvVars>>
notVad == <<fgVars, splitVars, enhVars, pvVars, urlVars, dbVars, storeVars, srvVars>>
notSplit == <<fgVars, vadVars, enhVars, pvVars, urlVars, dbVars, storeVars, srvVars>>
notEnh == <<fgVars, vadVars, splitVars, pvVars, urlVars, dbVars, storeVars, srvVars>>
notPv == <<fgVars, vadVars, splitVars, enhVars, urlVars, dbVars, storeVars, srvVars>>
notUrl == <<fgVars, vadVars, splitVars, enhVars, pvVars, dbVars, storeVars, srvVars>>

Min(a, b) == IF a <= b THEN a ELSE b

Last(s) == s[Len(s)]

(***************************************************************************)
(* Bounds of the model.                                                    *)
(***************************************************************************)
\* frame_generator: frame_duration_ms ranges over 0..MaxFrameMs
MaxFrameMs == 2
\* frame_generator: len(audio) ranges over 0..MaxAudioLen bytes
MaxAudioLen == 50
\* frame_generator: frames yielded before the model stops following a generator
\* that never ends
MaxYield == 4
\* vad_collector: the frame sequence has at most MaxFrames frames
MaxFrames == 10
\* vad_collector with a window of more than ten frames: at most MaxWideFrames frames
MaxWideFrames == 21
\* process_video_with_database: a stored video has at most MaxStoredClips Audio rows
MaxStoredClips == 2
\* split_with_vad: vad_collector returned at most MaxSegments segments
MaxSegments == 3
\* enhance_audio_chunked: the input holds up to MaxFullChunks whole chunks, plus
\* up to one chunk more
MaxFullChunks == 2
\* concurrent requests the server is given
MaxRequests == 2
\* clips one pipeline run of the server returns at most
MaxPipelineClips == 2
\* unrelated requests the server is given
MaxUnrelated == 2

(***************************************************************************)
(* frame_generator (youtube_processor.py 202-212)                          *)
(***************************************************************************)
\* The sample rates the generator is exercised with (two of the four rates
\* split_with_vad admits).  For these rates and 0..1000 ms the float expression
\* int(sample_rate * (frame_duration_ms / 1000.0) * 2) equals the exact quotient.
SampleRates == {8000, 16000}

\* n = int(sample_rate * (frame_duration_ms / 1000.0) * 2)
FrameBytes(sample_rate, ms) == (sample_rate * ms * 2) \div 1000

\* while offset + n <= len(audio)
FrameLoopGuard_strict(offset, n, len) == offset + n < len
FrameLoopGuard(offset, n, len) == offset + n <= len

\* Frame(audio[offset:offset + n], timestamp, duration): a Python slice stops at
\* the end of the buffer.  duration = (n / sample_rate) / 2 s = n ticks.
MakeFrame(offset, n, len, timestamp) ==
    [lo |-> Min(offset, len), hi |-> Min(offset + n, len),
     timestamp |-> timestamp, duration |-> n]

\* offset += n
NextOffset_overlapping(offset, n) == offset + n \div 2
NextOffset(offset, n) == offset + n

FgInit ==
    /\ fg_pc = "loop"
    /\ fg_sample_rate \in SampleRates
    /\ fg_frame_ms \in 0..MaxFrameMs
    /\ fg_len \in 0..MaxAudioLen
    /\ fg_offset = 0
    /\ fg_timestamp = 0
    /\ fg_frames = <<>>

FgIdle ==
    /\ fg_pc = "done"
    /\ fg_sample_rate = 8000
    /\ fg_frame_ms = 0
    /\ fg_len = 0
    /\ fg_offset = 0
    /\ fg_timestamp = 0
    /\ fg_frames = <<>>

\* one iteration of the while loop: yield a frame, advance
FgYield ==
    LET n == FrameBytes(fg_sample_rate, fg_frame_ms) IN
    /\ fg_pc = "loop"
    /\ FrameLoopGuard(fg_offset, n, fg_len)
    /\ Len(fg_frames) < MaxYield
    /\ fg_frames' = Append(fg_frames, MakeFrame(fg_offset, n, fg_len, fg_timestamp))
    /\ fg_timestamp' = fg_timestamp + n
    /\ fg_offset' = NextOffset(fg_offset, n)
    /\ UNCHANGED <<fg_pc, fg_sample_rate, fg_frame_ms, fg_len>>
    /\ UNCHANGED notFg

\* the loop condition is false: the generator is exhausted
FgStop ==
    LET n == FrameBytes(fg_sample_rate, fg_frame_ms) IN
    /\ fg_pc = "loop"
    /\ ~FrameLoopGuard(fg_offset, n, fg_len)
    /\ fg_pc' = "done"
    /\ UNCHANGED <<fg_sample_rate, fg_frame_ms, fg_len, fg_offset, fg_timestamp, fg_frames>>
    /\ UNCHANGED notFg

(***************************************************************************)
(* vad_collector (youtube_processor.py 214-251)                            *)
(***************************************************************************)
\* The arguments the collector is exercised with.  split_with_vad passes 30, 300.
FrameDurations == {30}
PaddingDurations == {20, 30, 60, 90}

\* num_padding_frames = int(padding_duration_ms / frame_duration_ms)
NumPaddingFrames_per_10ms(padding_ms, frame_ms) == padding_ms \div 10
NumPaddingFrames(padding_ms, frame_ms) == padding_ms \div frame_ms

\* collections.deque(maxlen=...).append: drops the oldest entry when full,
\* and keeps nothing when maxlen is 0
DequeAppend_unbounded(dq, x, maxlen) == Append(dq, x)
DequeAppend(dq, x, maxlen) ==
    IF maxlen = 0 THEN <<>>
    ELSE IF Len(dq) < maxlen THEN Append(dq, x)
    ELSE Append(Tail(dq), x)

RECURSIVE CountSpeech(_, _)
\* len([f for f, speech in ring_buffer if speech]) for want = TRUE,
\* len([f for f, speech in ring_buffer if not speech]) for want = FALSE
CountSpeech(rb, want) ==
    IF rb = <<>> THEN 0
    ELSE (IF Head(rb).speech = want THEN 1 ELSE 0) + CountSpeech(Tail(rb), want)

\* num > 0.9 * ring_buffer.maxlen
OverThreshold_all(num, maxlen) == num >= maxlen
OverThreshold_half(num, maxlen) == 2 * num > maxlen
OverThreshold(num, maxlen) == 10 * num > 9 * maxlen

RECURSIVE AllFramesOf(_)
\* the frames of the buffer entries, oldest first
AllFramesOf(rb) == IF rb = <<>> THEN <<>> ELSE <<Head(rb).frame>> \o AllFramesOf(Tail(rb))

\* lines 231-232: for f, s in ring_buffer: voiced_frames.append(f)
FramesOf_newest(rb) == IF rb = <<>> THEN <<>> ELSE <<rb[Len(rb)].frame>>
FramesOf(rb) == AllFramesOf(rb)

\* the frame the generator hands over as the i-th (i from 0), in ms
VadFrame(i, frame_ms) == [timestamp |-> i * frame_ms, duration |-> frame_ms]

\* A window of eleven 30 ms frames, the smallest for which "more than 90%" is
\* less than all of it.
WidePaddings == {330}

\* The input of the scenario of a single utterance: 20 s of 16 kHz mono PCM cut
\* into 30 ms frames (split_with_vad lines 266-268), speech lasting from 5.0 s
\* to 8.0 s, collected with the 300 ms window split_with_vad passes.
ScenarioSpeech == <<5000, 8000>>
ScenarioFrames == (20 * 16000 * 2) \div FrameBytes(16000, 30)

\* what vad.is_speech may answer for the i-th frame of the scenario: speech for
\* a frame wholly inside the utterance, non-speech for a frame wholly outside,
\* either for a frame that straddles one of its ends
ScenarioOutcomes(i) ==
    LET f == VadFrame(i, 30)
        lo == f.timestamp
        hi == f.timestamp + f.duration
    IN  IF ScenarioSpeech[1] <= lo /\ hi <= ScenarioSpeech[2] THEN {TRUE}
        ELSE IF hi <= ScenarioSpeech[1] \/ ScenarioSpeech[2] <= lo THEN {FALSE}
        ELSE BOOLEAN

\* how many frames the frame list may hold
FrameLimit ==
    CASE vad_input = "any" -> MaxFrames
      [] vad_input = "wide" -> MaxWideFrames
      [] vad_input = "default" -> MaxWideFrames
      [] vad_input = "scenario" -> ScenarioFrames

\* the for loop of line 223 has a frame to consume
MoreFrames == frame_index < FrameLimit

\* the for loop of line 223 may be over: a list of "any" or "wide" input ends
\* anywhere up to FrameLimit, the scenario's after its last frame
FramesExhausted == vad_input = "scenario" => frame_index = FrameLimit

\* vad.is_speech(frame.bytes, sample_rate) for the i-th frame (line 224)
ClassifierOutcomes(i) == IF vad_input = "scenario" THEN ScenarioOutcomes(i) ELSE BOOLEAN

\* (segment_start, segment_end) of the accumulated run
SegmentOf(voiced) == <<voiced[1].timestamp, Last(voiced).timestamp + Last(voiced).duration>>

\* ring_buffer.clear() on the untrigger transition (line 243)
RingAfterUntrigger_kept(rb) == rb
RingAfterUntrigger(rb) == <<>>

\* voiced_frames = [] on the untrigger transition (line 244)
VoicedAfterUntrigger_kept(voiced) == voiced
VoicedAfterUntrigger(voiced) == <<>>

\* lines 246-249: if voiced_frames: segments.append(...)
FinalSegments_dropped(voiced, segs) == segs
FinalSegments(voiced, segs) ==
    IF voiced # <<>> THEN Append(segs, SegmentOf(voiced)) ELSE segs

RECURSIVE TimestampsOf(_)
TimestampsOf(fs) ==
    IF fs = <<>> THEN {} ELSE {Head(fs).timestamp} \cup TimestampsOf(Tail(fs))

VadStart ==
    /\ vad_pc = "loop"
    /\ frame_index = 0
    /\ is_speech = FALSE
    /\ ring_buffer = <<>>
    /\ triggered = FALSE
    /\ voiced_frames = <<>>
    /\ segments = <<>>
    /\ voiced_log = {}

VadInitWide ==
    /\ vad_input = "wide"
    /\ frame_duration_ms \in FrameDurations
    /\ padding_duration_ms \in WidePaddings
    /\ VadStart

\* the call of split_with_vad line 268: 30 ms frames, a 300 ms window
VadInitDefault ==
    /\ vad_input = "default"
    /\ frame_duration_ms = 30
    /\ padding_duration_ms = 300
    /\ VadStart

VadInitScenario ==
    /\ vad_input = "scenario"
    /\ frame_duration_ms = 30
    /\ padding_duration_ms = 300
    /\ VadStart

VadInit ==
    /\ vad_pc = "loop"
    /\ vad_input = "any"
    /\ frame_duration_ms \in FrameDurations
    /\ padding_duration_ms \in PaddingDurations
    /\ frame_index = 0
    /\ is_speech = FALSE
    /\ ring_buffer = <<>>
    /\ triggered = FALSE
    /\ voiced_frames = <<>>
    /\ segments = <<>>
    /\ voiced_log = {}

VadIdle ==
    /\ vad_pc = "done"
    /\ vad_input = "any"
    /\ frame_duration_ms = 30
    /\ padding_duration_ms = 300
    /\ frame_index = 0
    /\ is_speech = FALSE
    /\ ring_buffer = <<>>
    /\ triggered = FALSE
    /\ voiced_frames = <<>>
    /\ segments = <<>>
    /\ voiced_log = {}

\* one iteration of the for loop, not triggered (lines 226-233)
VadFrameIdle ==
    /\ vad_pc = "loop"
    /\ MoreFrames
    /\ ~triggered
    /\ \E speech \in ClassifierOutcomes(frame_index) :
        LET maxlen == NumPaddingFrames(padding_duration_ms, frame_duration_ms)
            frame == VadFrame(frame_index, frame_duration_ms)
            rb == DequeAppend(ring_buffer, [frame |-> frame, speech |-> speech], maxlen)
        IN  /\ is_speech' = speech
            /\ IF OverThreshold(CountSpeech(rb, TRUE), maxlen)
               THEN /\ triggered' = TRUE
                    /\ voiced_frames' = voiced_frames \o FramesOf(rb)
                    /\ voiced_log' = voiced_log \cup TimestampsOf(FramesOf(rb))
                    /\ ring_buffer' = <<>>
               ELSE /\ ring_buffer' = rb
                    /\ UNCHANGED <<triggered, voiced_frames, voiced_log>>
    /\ frame_index' = frame_index + 1
    /\ UNCHANGED <<vad_pc, vad_input, frame_duration_ms, padding_duration_ms, segments>>
    /\ UNCHANGED notVad

\* one iteration of the for loop, triggered (lines 234-244)
VadFrameTriggered ==
    /\ vad_pc = "loop"
    /\ MoreFrames
    /\ triggered
    /\ \E speech \in ClassifierOutcomes(frame_index) :
        LET maxlen == NumPaddingFrames(padding_duration_ms, frame_duration_ms)
            frame == VadFrame(frame_index, frame_duration_ms)
            voiced == Append(voiced_frames, frame)
            rb == DequeAppend(ring_buffer, [frame |-> frame, speech |-> speech], maxlen)
        IN  /\ is_speech' = speech
            /\ voiced_log' = voiced_log \cup {frame.timestamp}
            /\ IF OverThreshold(CountSpeech(rb, FALSE), maxlen)
               THEN /\ triggered' = FALSE
                    /\ segments' = Append(segments, SegmentOf(voiced))
                    /\ ring_buffer' = RingAfterUntrigger(rb)
                    /\ voiced_frames' = VoicedAfterUntrigger(voiced)
               ELSE /\ ring_buffer' = rb
                    /\ voiced_frames' = voiced
                    /\ UNCHANGED <<triggered, segments>>
    /\ frame_index' = frame_index + 1
    /\ UNCHANGED <<vad_pc, vad_input, frame_duration_ms, padding_duration_ms>>
    /\ UNCHANGED notVad

\* line 224: vad.is_speech raises (webrtcvad rejects the frame), and the
\* exception leaves vad_collector: nothing is returned
VadClassifyFails ==
    /\ vad_pc = "loop"
    /\ MoreFrames
    /\ vad_pc' = "raised"
    /\ UNCHANGED <<vad_input, frame_duration_ms, padding_duration_ms, frame_index, is_speech,
                   ring_buffer, triggered, voiced_frames, segments, voiced_log>>
    /\ UNCHANGED notVad

\* the frames have run out: lines 246-251
VadFinish ==
    /\ vad_pc = "loop"
    /\ FramesExhausted
    /\ segments' = FinalSegments(voiced_frames, segments)
    /\ vad_pc' = "done"
    /\ UNCHANGED <<vad_input, frame_duration_ms, padding_duration_ms, frame_index, is_speech,
                   ring_buffer, triggered, voiced_frames, voiced_log>>
    /\ UNCHANGED notVad

(***************************************************************************)
(* split_with_vad, the clip loop (youtube_processor.py 274-324)            *)
(***************************************************************************)
\* settings.MIN_CLIP_DURATION = 4.0 s and settings.MAX_CLIP_DURATION = 10.0 s, in ms
MIN_CLIP_DURATION == 4000
MAX_CLIP_DURATION == 10000

\* The segments the loop is exercised with: each starts SegmentGaps after the
\* end of the one before and lasts one of SegmentDurations (ms), so the list is
\* ordered and non-overlapping as vad_collector returns it.
SegmentGaps == {0, 300}
SegmentDurations == {3500, 3990, 4000, 10000, 10020}
\* the padding arguments, ms: the defaults of split_with_vad and process_video
\* (1.0 s and 0.5 s) and values that are not whole hundredths of a second
StartPaddings == {1000, 1007}
EndPaddings == {500, 502}
\* the source id the clips are named after
VideoId == "abcdefghijk"

RECURSIVE BuildSegments(_, _)
\* the segment list laid out from a list of <<gap, duration>>, starting at time t
BuildSegments(shape, t) ==
    IF shape = <<>> THEN <<>>
    ELSE LET start == t + Head(shape)[1]
             end == start + Head(shape)[2]
         IN  <<<<start, end>>>> \o BuildSegments(Tail(shape), end)

SegmentLists ==
    {BuildSegments(shape, 0) :
        shape \in UNION {[1..k -> SegmentGaps \X SegmentDurations] : k \in 0..MaxSegments}}

\* line 284: duration < MIN_CLIP_DURATION or duration > MAX_CLIP_DURATION
RejectSegment_exclusive(duration) ==
    duration <= MIN_CLIP_DURATION \/ duration >= MAX_CLIP_DURATION
RejectSegment(duration) ==
    duration < MIN_CLIP_DURATION \/ duration > MAX_CLIP_DURATION

\* lines 284-286: a skipped segment leaves clip_counter as it is
CounterAfterSkip_bumped(counter) == counter + 1
CounterAfterSkip(counter) == counter

\* lines 284-286: a skipped segment reaches no wave.open(clip_path, 'wb'), so
\* the set of clip files is as it was
FilesAfterSkip_written(files, name) == files \cup {name}
FilesAfterSkip(files, name) == files

RECURSIVE Digits(_)
\* the decimal digits of k >= 0, most significant first
Digits(k) == IF k < 10 THEN <<k>> ELSE Append(Digits(k \div 10), k % 10)

\* f"{clip_counter:03d}": the decimal digits, zero-padded on the left to width 3
Fmt03d(k) ==
    LET ds == Digits(k)
        pad == IF Len(ds) >= 3 THEN 0 ELSE 3 - Len(ds)
    IN  [i \in 1..(pad + Len(ds)) |-> IF i <= pad THEN 0 ELSE ds[i - pad]]

\* clip_name = f"{video_id}-{clip_counter:03d}.wav"
ClipName(vid, counter) == [video_id |-> vid, counter |-> Fmt03d(counter)]

\* round(x, 2) of a time in seconds, on milliseconds: the nearest multiple of
\* 10 ms.  A value ending in 5 ms is a tie only on paper (a binary float is
\* rarely the exact half); the inputs of this model never end in 5.
Round2(ms) ==
    LET q == ms \div 10
        r == ms % 10
    IN  IF r < 5 THEN 10 * q
        ELSE IF r > 5 THEN 10 * (q + 1)
        ELSE IF q % 2 = 0 THEN 10 * q ELSE 10 * (q + 1)

\* line 303: padded_duration = duration + start_padding + end_padding
PaddedDuration_no_end(duration, start_pad, end_pad) == duration + start_pad
PaddedDuration(duration, start_pad, end_pad) == duration + start_pad + end_pad

\* lines 313-319: the record appended to clips_data
ClipRecord(vid, counter, start, end, start_pad, end_pad) ==
    [clip_name |-> ClipName(vid, counter),
     start_time |-> Round2(start),
     end_time |-> Round2(end),
     duration |-> Round2(end - start),
     padded_duration |-> Round2(PaddedDuration(end - start, start_pad, end_pad))]

SplitInit ==
    /\ split_pc = "loop"
    /\ split_segments \in SegmentLists
    /\ seg_index = 0
    /\ start_padding \in StartPaddings
    /\ end_padding \in EndPaddings
    /\ clip_counter = 1
    /\ clips_data = <<>>
    /\ clip_files = {}

SplitIdle ==
    /\ split_pc = "done"
    /\ split_segments = <<>>
    /\ seg_index = 0
    /\ start_padding = 1000
    /\ end_padding = 500
    /\ clip_counter = 1
    /\ clips_data = <<>>
    /\ clip_files = {}

\* the segment the for loop is at, and its duration = end - start
CurrentSegment == split_segments[seg_index + 1]
CurrentDuration == CurrentSegment[2] - CurrentSegment[1]

\* lines 279-286: the segment is outside the duration range and is skipped
SplitSkip ==
    /\ split_pc = "loop"
    /\ seg_index < Len(split_segments)
    /\ RejectSegment(CurrentDuration)
    /\ clip_counter' = CounterAfterSkip(clip_counter)
    /\ clip_files' = FilesAfterSkip(clip_files, ClipName(VideoId, clip_counter))
    /\ seg_index' = seg_index + 1
    /\ UNCHANGED <<split_pc, split_segments, start_padding, end_padding, clips_data>>
    /\ UNCHANGED notSplit

\* lines 288-321: the segment is read, padded, written and recorded
SplitClip ==
    /\ split_pc = "loop"
    /\ seg_index < Len(split_segments)
    /\ ~RejectSegment(CurrentDuration)
    /\ clip_files' = clip_files \cup {ClipName(VideoId, clip_counter)}
    /\ clips_data' = Append(clips_data,
                            ClipRecord(VideoId, clip_counter, CurrentSegment[1],
                                       CurrentSegment[2], start_padding, end_padding))
    /\ clip_counter' = clip_counter + 1
    /\ seg_index' = seg_index + 1
    /\ UNCHANGED <<split_pc, split_segments, start_padding, end_padding>>
    /\ UNCHANGED notSplit

\* lines 291-311 raise: reading the segment fails (no clip file yet), or writing
\* the clip fails after wave.open(clip_path, 'wb') has created the file
SplitClipFails ==
    /\ split_pc = "loop"
    /\ seg_index < Len(split_segments)
    /\ ~RejectSegment(CurrentDuration)
    /\ \E file_created \in BOOLEAN :
          clip_files' = IF file_created
                        THEN clip_files \cup {ClipName(VideoId, clip_counter)}
                        ELSE clip_files
    /\ split_pc' = "raised"
    /\ UNCHANGED <<split_segments, seg_index, start_padding, end_padding,
                   clip_counter, clips_data>>
    /\ UNCHANGED notSplit

\* lines 323-324: the loop is over, clips_data is returned
SplitReturn ==
    /\ split_pc = "loop"
    /\ seg_index = Len(split_segments)
    /\ split_pc' = "done"
    /\ UNCHANGED <<split_segments, seg_index, start_padding, end_padding,
                   clip_counter, clips_data, clip_files>>
    /\ UNCHANGED notSplit

(***************************************************************************)
(* enhance_audio_chunked (youtube_processor.py 449-507)                    *)
(***************************************************************************)
\* self.df_state.sr(): the sample rate of the DeepFilterNet model, which is the
\* rate download_audio transcodes to
DfSampleRate == 48000

\* the chunk_duration_seconds the function is exercised with; process_video
\* passes 600
ChunkDurations == {0, 1, 600}

\* chunk_size = int(chunk_duration_seconds * sr)
ChunkSize(seconds) == seconds * DfSampleRate

\* the input lengths the function is exercised with: whole chunks, one sample
\* more, one sample less
SampleCounts(chunk_size) ==
    IF chunk_size = 0 THEN {0, 1}
    ELSE {q * chunk_size + r : q \in 0..MaxFullChunks, r \in {0, 1, chunk_size - 1}}

\* num_chunks = (total_samples + chunk_size - 1) // chunk_size
NumChunks(total, chunk_size) == (total + chunk_size - 1) \div chunk_size

\* chunk = audio[:, start_idx:end_idx]
ChunkWindow(i, chunk_size, total) ==
    [lo |-> i * chunk_size, hi |-> Min(i * chunk_size + chunk_size, total)]

OriginalChunk(w) == [lo |-> w.lo, hi |-> w.hi, enhanced |-> FALSE]
\* enhance(self.model, self.df_state, chunk): a tensor of the chunk's length
EnhancedChunk(w) == [lo |-> w.lo, hi |-> w.hi, enhanced |-> TRUE]

\* lines 488-489, nothing raises
AfterEnhanced(chunks, w) == Append(chunks, EnhancedChunk(w))

\* line 488 raises: lines 495-498 append the original chunk
AfterInferenceFailure_dropped(chunks, w) == chunks
AfterInferenceFailure(chunks, w) == Append(chunks, OriginalChunk(w))

\* lines 492-493 raise after line 489 has appended the enhanced chunk: lines
\* 495-498 append the original chunk as well
AfterCacheClearFailure(chunks, w) ==
    Append(Append(chunks, EnhancedChunk(w)), OriginalChunk(w))

RECURSIVE SamplesIn(_)
\* torch.cat(enhanced_chunks, dim=1).shape[1]
SamplesIn(chunks) ==
    IF chunks = <<>> THEN 0
    ELSE (Head(chunks).hi - Head(chunks).lo) + SamplesIn(Tail(chunks))

EnhIdle ==
    /\ enh_pc = "idle"
    /\ chunk_duration_seconds = 600
    /\ total_samples = 0
    /\ chunk_index = 0
    /\ enhanced_chunks = <<>>
    /\ saved_samples = -1
    /\ enh_exc = "none"
    /\ chunk_fail_log = {}

\* enhance_audio_chunked is called on its own
EnhInit ==
    /\ enh_pc = "load"
    /\ chunk_duration_seconds \in ChunkDurations
    /\ total_samples = 0
    /\ chunk_index = 0
    /\ enhanced_chunks = <<>>
    /\ saved_samples = -1
    /\ enh_exc = "none"
    /\ chunk_fail_log = {}

\* lines 463-475: the audio is loaded and the chunks are counted; the ceiling
\* division raises ZeroDivisionError when chunk_size is 0
EnhLoad ==
    /\ enh_pc = "load"
    /\ \E total \in SampleCounts(ChunkSize(chunk_duration_seconds)) :
          total_samples' = total
    /\ IF ChunkSize(chunk_duration_seconds) = 0
       THEN enh_pc' = "raised" /\ enh_exc' = "ZeroDivisionError"
       ELSE enh_pc' = "loop" /\ enh_exc' = enh_exc
    /\ UNCHANGED <<chunk_duration_seconds, chunk_index, enhanced_chunks, saved_samples,
                   chunk_fail_log>>
    /\ UNCHANGED notEnh

\* line 463: load_audio raises
EnhLoadFails ==
    /\ enh_pc = "load"
    /\ enh_pc' = "raised"
    /\ enh_exc' = "load_audio"
    /\ UNCHANGED <<chunk_duration_seconds, total_samples, chunk_index, enhanced_chunks,
                   saved_samples, chunk_fail_log>>
    /\ UNCHANGED notEnh

InChunkLoop ==
    /\ enh_pc = "loop"
    /\ chunk_index < NumChunks(total_samples, ChunkSize(chunk_duration_seconds))

CurrentWindow == ChunkWindow(chunk_index, ChunkSize(chunk_duration_seconds), total_samples)

\* lines 477-493: a chunk is enhanced and appended
EnhChunkEnhanced ==
    /\ InChunkLoop
    /\ enhanced_chunks' = AfterEnhanced(enhanced_chunks, CurrentWindow)
    /\ chunk_index' = chunk_index + 1
    /\ UNCHANGED <<enh_pc, chunk_duration_seconds, total_samples, saved_samples, enh_exc,
                   chunk_fail_log>>
    /\ UNCHANGED notEnh

\* lines 477-498: enhance() raises, the handler appends the original chunk
EnhChunkInferenceFails ==
    /\ InChunkLoop
    /\ enhanced_chunks' = AfterInferenceFailure(enhanced_chunks, CurrentWindow)
    /\ chunk_fail_log' = chunk_fail_log \cup {<<chunk_index, "enhance">>}
    /\ chunk_index' = chunk_index + 1
    /\ UNCHANGED <<enh_pc, chunk_duration_seconds, total_samples, saved_samples, enh_exc>>
    /\ UNCHANGED notEnh

\* lines 477-498: enhance() returns and its result is appended, then
\* torch.cuda.is_available() / torch.cuda.empty_cache() raises inside the same
\* try block, and the handler appends the original chunk
EnhChunkCacheClearFails ==
    /\ InChunkLoop
    /\ enhanced_chunks' = AfterCacheClearFailure(enhanced_chunks, CurrentWindow)
    /\ chunk_fail_log' = chunk_fail_log \cup {<<chunk_index, "empty_cache">>}
    /\ chunk_index' = chunk_index + 1
    /\ UNCHANGED <<enh_pc, chunk_duration_seconds, total_samples, saved_samples, enh_exc>>
    /\ UNCHANGED notEnh

LoopEnded ==
    /\ enh_pc = "loop"
    /\ chunk_index >= NumChunks(total_samples, ChunkSize(chunk_duration_seconds))

\* lines 500-507: the chunks are concatenated and saved
EnhConcatSave ==
    /\ LoopEnded
    /\ enhanced_chunks # <<>>
    /\ saved_samples' = SamplesIn(enhanced_chunks)
    /\ enh_pc' = "returned"
    /\ UNCHANGED <<chunk_duration_seconds, total_samples, chunk_index, enhanced_chunks,
                   enh_exc, chunk_fail_log>>
    /\ UNCHANGED notEnh

\* line 502: torch.cat raises on an empty list (no samples, no chunks)
EnhConcatFails ==
    /\ LoopEnded
    /\ enhanced_chunks = <<>>
    /\ enh_pc' = "raised"
    /\ enh_exc' = "torch.cat"
    /\ UNCHANGED <<chunk_duration_seconds, total_samples, chunk_index, enhanced_chunks,
                   saved_samples, chunk_fail_log>>
    /\ UNCHANGED notEnh

\* line 506: save_audio raises
EnhSaveFails ==
    /\ LoopEnded
    /\ enhanced_chunks # <<>>
    /\ enh_pc' = "raised"
    /\ enh_exc' = "save_audio"
    /\ UNCHANGED <<chunk_duration_seconds, total_samples, chunk_index, enhanced_chunks,
                   saved_samples, chunk_fail_log>>
    /\ UNCHANGED notEnh

(***************************************************************************)
(* extract_video_id (youtube_processor.py 61-75)                           *)
(***************************************************************************)
\* A URL is a sequence of tokens: the literal texts the four patterns look for
\* and other host texts are one token each, everything else one character each.
Lower == {"a", "b", "c", "d", "e", "f", "g", "h", "i", "j", "k", "l", "m",
          "n", "o", "p", "q", "r", "s", "t", "u", "v", "w", "x", "y", "z"}
Upper == {"A", "B", "C", "D", "E", "F", "G", "H", "I", "J", "K", "L", "M",
          "N", "O", "P", "Q", "R", "S", "T", "U", "V", "W", "X", "Y", "Z"}
DigitChars == {"0", "1", "2", "3", "4", "5", "6", "7", "8", "9"}

\* the character class [a-zA-Z0-9_-]
IdChars == Lower \cup Upper \cup DigitChars \cup {"_", "-"}

\* the repetition count {11}
IdLength == 11

\* the literal prefixes of the four patterns, in the order of the list
Patterns_no_short == <<"youtube.com/watch?v=", "youtube.com/embed/", "youtube.com/v/">>
Patterns == <<"youtube.com/watch?v=", "youtube.com/embed/", "youtu.be/", "youtube.com/v/">>

\* whether a pattern matches with its literal at position p: the literal, then
\* IdLength characters of the class
MatchAt(u, p, literal) ==
    /\ u[p] = literal
    /\ p + IdLength <= Len(u)
    /\ \A j \in 1..IdLength : u[p + j] \in IdChars

\* re.search(pattern, youtube_url): the leftmost match, 0 if there is none
Search(u, literal) ==
    LET hits == {p \in 1..Len(u) : MatchAt(u, p, literal)}
    IN  IF hits = {} THEN 0 ELSE CHOOSE p \in hits : \A q \in hits : p <= q

\* the value of extract_video_id: match.group(1) of the first pattern of the
\* list that matches, <<>> when none does (ValueError)
ExtractVideoId(u) ==
    LET matching == {k \in 1..Len(Patterns) : Search(u, Patterns[k]) # 0}
    IN  IF matching = {} THEN <<>>
        ELSE LET k == CHOOSE i \in matching : \A j \in matching : i <= j
                 p == Search(u, Patterns[k])
             IN  SubSeq(u, p + 1, p + IdLength)

\* The URLs extract_video_id is exercised with: a scheme and host prefix, a
\* host-and-path text (one of the four literals or another), and what follows.
UrlPrefixes == {"https://www.", "https://"}
UrlHosts == {"youtube.com/watch?v=", "youtube.com/embed/", "youtu.be/", "youtube.com/v/",
             "youtube.com/shorts/", "youtube.com/playlist?list=", "vimeo.com/"}
VideoIds == {<<"d", "Q", "w", "4", "w", "9", "W", "g", "X", "c", "Q">>,
             <<"a", "_", "b", "-", "0", "1", "Z", "_", "-", "x", "y">>}
QuerySuffix == <<"&", "t", "=", "4", "2", "s">>

\* what follows the host text: the id, the id and a query, the id cut short,
\* the id with one more id character, the id with a character outside the
\* class in place of its sixth, and the id followed by a watch link to the id
\* read backwards
Reversed(v) == [k \in 1..Len(v) |-> v[Len(v) + 1 - k]]
UrlTails(v) ==
    {v,
     v \o QuerySuffix,
     SubSeq(v, 1, IdLength - 1),
     v \o <<"A">>,
     [k \in 1..Len(v) |-> IF k = 6 THEN "%" ELSE v[k]],
     v \o <<"?", "u", "=", "youtube.com/watch?v=">> \o Reversed(v)}

Urls ==
    {<<pre, host>> \o tail :
        pre \in UrlPrefixes, host \in UrlHosts, tail \in UNION {UrlTails(v) : v \in VideoIds}}

\* the URLs process_video is exercised with: one that holds an id and one that
\* does not
PipelineUrls ==
    {<<"https://www.", "youtube.com/watch?v=",
       "d", "Q", "w", "4", "w", "9", "W", "g", "X", "c", "Q">>,
     <<"https://", "vimeo.com/", "1", "2", "3">>}

UrlInit ==
    /\ url \in Urls
    /\ url_pc = "call"
    /\ video_id = <<>>

UrlIdle ==
    /\ url = <<>>
    /\ url_pc = "idle"
    /\ video_id = <<>>

\* lines 70-73: a pattern matches and its group is returned
ExtractReturns ==
    /\ url_pc = "call"
    /\ ExtractVideoId(url) # <<>>
    /\ video_id' = ExtractVideoId(url)
    /\ url_pc' = "returned"
    /\ url' = url

\* line 75: no pattern matches, ValueError
ExtractRaises ==
    /\ url_pc = "call"
    /\ ExtractVideoId(url) = <<>>
    /\ url_pc' = "raised"
    /\ UNCHANGED <<url, video_id>>

UrlExtract == ExtractReturns /\ UNCHANGED notUrl

UrlExtractFails == ExtractRaises /\ UNCHANGED notUrl

(***************************************************************************)
(* process_video (youtube_processor.py 326-366) and download_audio         *)
(* (youtube_processor.py 111-200)                                          *)
(***************************************************************************)
\* chunk_duration_seconds=600 at line 341
PipelineChunkSeconds == 600

PvIdle ==
    /\ pc = "idle"
    /\ exc = "none"
    /\ temp_file = FALSE
    /\ raw_file = "none"
    /\ stage_log = <<>>
    /\ result = "none"

PvInit ==
    /\ pc = "extract_video_id"
    /\ exc = "none"
    /\ temp_file = FALSE
    /\ raw_file = "none"
    /\ stage_log = <<>>
    /\ result = "none"

\* a statement inside the try block of process_video raises: control goes to
\* the finally clause with the exception pending
Raise(kind) ==
    /\ pc' = "finally"
    /\ exc' = kind

\* the stage is entered
Started(stage) == stage_log' = Append(stage_log, stage)

\* line 330: the id is extracted
PvExtractId ==
    /\ pc = "extract_video_id"
    /\ ExtractReturns
    /\ Started("extract_video_id")
    /\ pc' = "tempfile"
    /\ UNCHANGED <<exc, temp_file, raw_file, result>>
    /\ UNCHANGED <<fgVars, vadVars, splitVars, enhVars, dbVars, storeVars, srvVars>>

\* line 330: no pattern matches, ValueError leaves process_video before the
\* temporary file is created
PvExtractIdFails ==
    /\ pc = "extract_video_id"
    /\ ExtractRaises
    /\ Started("extract_video_id")
    /\ pc' = "done"
    /\ exc' = "ValueError"
    /\ UNCHANGED <<temp_file, raw_file, result>>
    /\ UNCHANGED <<fgVars, vadVars, splitVars, enhVars, dbVars, storeVars, srvVars>>

\* lines 333-334: NamedTemporaryFile(suffix='.wav', delete=False) creates the file
PvCreateTemp ==
    /\ pc = "tempfile"
    /\ Started("tempfile")
    /\ temp_file' = TRUE
    /\ pc' = "download"
    /\ UNCHANGED <<exc, raw_file, result>>
    /\ UNCHANGED notPv

\* download_audio lines 129-149: yt-dlp writes <tmp>_raw.<ext>; the extension is
\* one of possible_extensions, another one, or no matching file is left
DlDownload ==
    /\ pc = "download"
    /\ Started("download")
    /\ \E left \in {"known_ext", "other_ext", "none"} : raw_file' = left
    /\ pc' = "locate_raw"
    /\ UNCHANGED <<exc, temp_file, result>>
    /\ UNCHANGED notPv

\* download_audio lines 151-156: the metadata fetch or the download raises
\* (taken to leave no <tmp>_raw.<ext> behind)
DlDownloadFails ==
    /\ pc = "download"
    /\ Started("download")
    /\ Raise("RuntimeError: YouTube download failed")
    /\ UNCHANGED <<temp_file, raw_file, result>>
    /\ UNCHANGED notPv

\* download_audio lines 158-178: the raw file is found by extension or by glob
DlLocate ==
    /\ pc = "locate_raw"
    /\ IF raw_file # "none"
       THEN pc' = "transcode" /\ exc' = exc
       ELSE Raise("FileNotFoundError")
    /\ UNCHANGED <<temp_file, raw_file, stage_log, result>>
    /\ UNCHANGED notPv

\* download_audio lines 180-187: ffmpeg writes output_file, the temporary WAV
DlTranscode ==
    /\ pc = "transcode"
    /\ Started("transcode")
    /\ temp_file' = TRUE
    /\ pc' = "cleanup_raw"
    /\ UNCHANGED <<exc, raw_file, result>>
    /\ UNCHANGED notPv

\* download_audio lines 188-193: ffmpeg fails or is missing; RuntimeError is
\* raised before the clean-up of lines 195-198 is reached
DlTranscodeFails ==
    /\ pc = "transcode"
    /\ Started("transcode")
    /\ Raise("RuntimeError: Audio conversion failed")
    /\ UNCHANGED <<temp_file, raw_file, result>>
    /\ UNCHANGED notPv

\* download_audio lines 195-200: the raw file is removed, metadata returned
DlCleanupRaw ==
    /\ pc = "cleanup_raw"
    /\ raw_file' = "none"
    /\ pc' = "enhance"
    /\ UNCHANGED <<exc, temp_file, stage_log, result>>
    /\ UNCHANGED notPv

\* line 341: enhance_audio_chunked(temp_audio_path, temp_audio_path, 600) is called
PvCallEnhance ==
    /\ pc = "enhance"
    /\ enh_pc = "idle"
    /\ Started("enhance")
    /\ enh_pc' = "load"
    /\ chunk_duration_seconds' = PipelineChunkSeconds
    /\ UNCHANGED <<total_samples, chunk_index, enhanced_chunks, saved_samples, enh_exc,
                   chunk_fail_log>>
    /\ UNCHANGED <<pc, exc, temp_file, raw_file, result>>
    /\ UNCHANGED <<fgVars, vadVars, splitVars, urlVars, dbVars, storeVars, srvVars>>

\* line 341 is a plain call: control reaches line 342 only when
\* enhance_audio_chunked has returned
EnhanceCompleted_early(epc) == epc \in {"loop", "returned"}
EnhanceCompleted(epc) == epc = "returned"

\* lines 341-342: enhance_audio_chunked has returned
PvEnhanceReturned ==
    /\ pc = "enhance"
    /\ EnhanceCompleted(enh_pc)
    /\ pc' = "resample"
    /\ UNCHANGED <<exc, temp_file, raw_file, stage_log, result>>
    /\ UNCHANGED notPv

\* line 341: enhance_audio_chunked has raised
PvEnhanceRaised ==
    /\ pc = "enhance"
    /\ enh_pc = "raised"
    /\ Raise(enh_exc)
    /\ UNCHANGED <<temp_file, raw_file, stage_log, result>>
    /\ UNCHANGED notPv

\* lines 345-349: convert_audio_to_sample_rate rewrites the temporary WAV at 16 kHz
PvResample ==
    /\ pc = "resample"
    /\ Started("resample")
    /\ temp_file' = TRUE
    /\ pc' = "split"
    /\ UNCHANGED <<exc, raw_file, result>>
    /\ UNCHANGED notPv

\* lines 345-349: convert_audio_to_sample_rate raises
PvResampleFails ==
    /\ pc = "resample"
    /\ Started("resample")
    /\ Raise("resample")
    /\ UNCHANGED <<temp_file, raw_file, result>>
    /\ UNCHANGED notPv

\* lines 352-361: split_with_vad returns the clips, and the return statement of
\* line 361 evaluates its value; the finally clause is still to run
PvSplit ==
    /\ pc = "split"
    /\ Started("split")
    /\ result' = "clips"
    /\ pc' = "finally"
    /\ UNCHANGED <<exc, temp_file, raw_file>>
    /\ UNCHANGED notPv

\* lines 352-359: split_with_vad raises: the format assertions (lines 259-263),
\* the frame classifier, or the writing of a clip
PvSplitFails ==
    /\ pc = "split"
    /\ Started("split")
    /\ \E kind \in {"AssertionError", "classification", "clip_writing"} : Raise(kind)
    /\ UNCHANGED <<temp_file, raw_file, result>>
    /\ UNCHANGED notPv

\* lines 365-366: if os.path.exists(temp_audio_path): os.remove(temp_audio_path)
TempAfterFinally_on_success_only(exists, pending) ==
    IF pending = "none" THEN FALSE ELSE exists
TempAfterFinally(exists, pending) == FALSE

\* the finally clause has no return of its own: a pending exception stays
\* pending, and a pending return value is handed to the caller
PendingAfterFinally_swallowed(pending) == "none"
PendingAfterFinally(pending) == pending

\* lines 363-366: the finally clause runs, then process_video returns or the
\* pending exception goes on to the caller
PvFinally ==
    /\ pc = "finally"
    /\ temp_file' = TempAfterFinally(temp_file, exc)
    /\ exc' = PendingAfterFinally(exc)
    /\ pc' = "done"
    /\ UNCHANGED <<raw_file, stage_log, result>>
    /\ UNCHANGED notPv

(***************************************************************************)
(* process_video_with_database (youtube_processor.py 368-441) and          *)
(* DatabaseService.check_video_exists / get_video_audio_clips              *)
(***************************************************************************)
\* A datetime.time is <<hour, minute, second, microsecond>>, None is <<>>.
\* _time_to_seconds (lines 443-447), in microseconds:
\* hour * 3600 + minute * 60 + second + microsecond / 1000000
TimeToSeconds(t) ==
    IF t = <<>> THEN 0
    ELSE (t[1] * 3600 + t[2] * 60 + t[3]) * 1000000 + t[4]

\* the Audio rows the persistence is exercised with; padded_duration in ms
AudioRows ==
    {[audio_filename |-> "clip-a.wav", start_time |-> <<0, 0, 1, 500000>>,
      end_time |-> <<0, 0, 6, 250000>>, padded_duration |-> 6250],
     [audio_filename |-> "clip-b.wav", start_time |-> <<>>,
      end_time |-> <<>>, padded_duration |-> 5500],
     [audio_filename |-> "clip-c.wav", start_time |-> <<0, 1, 0, 0>>,
      end_time |-> <<>>, padded_duration |-> 9000]}

StoredClipLists == UNION {[1..k -> AudioRows] : k \in 0..MaxStoredClips}

\* lines 419-426: the clip record built from an Audio row
DbClipRecord(a) ==
    [clip_name |-> a.audio_filename,
     clip_path |-> <<"output", video_id, a.audio_filename>>,
     start_time |-> IF a.start_time # <<>> THEN TimeToSeconds(a.start_time) ELSE 0,
     end_time |-> IF a.end_time # <<>> THEN TimeToSeconds(a.end_time) ELSE 0,
     duration |-> IF a.start_time # <<>> /\ a.end_time # <<>>
                  THEN TimeToSeconds(a.end_time) - TimeToSeconds(a.start_time)
                  ELSE 0,
     padded_duration |-> a.padded_duration]

\* line 399: if check_existing: the persistence is asked only when the flag is set
ChecksPersistence_always(check) == TRUE
ChecksPersistence(check) == check

DbIdle ==
    /\ db_pc = "idle"
    /\ check_existing = TRUE
    /\ db_video = FALSE
    /\ db_clips = <<>>
    /\ is_new_video = TRUE
    /\ returned_clips = <<>>
    /\ pv_calls = 0

\* the call, with the persistence either holding the video and some Audio rows
\* or not holding it
DbInit ==
    /\ db_pc = "extract_video_id"
    /\ check_existing \in BOOLEAN
    /\ db_video \in BOOLEAN
    /\ db_clips \in (IF db_video THEN StoredClipLists ELSE {<<>>})
    /\ is_new_video = TRUE
    /\ returned_clips = <<>>
    /\ pv_calls = 0

\* lines 395-396: the id is extracted, is_new_video = True
DbExtractId ==
    /\ db_pc = "extract_video_id"
    /\ ExtractReturns
    /\ is_new_video' = TRUE
    /\ db_pc' = IF ChecksPersistence(check_existing) THEN "check" ELSE "process_video"
    /\ UNCHANGED <<check_existing, db_video, db_clips, returned_clips, pv_calls>>
    /\ UNCHANGED <<fgVars, vadVars, splitVars, enhVars, pvVars, storeVars, srvVars>>

\* line 395: no pattern matches, ValueError leaves the function
DbExtractIdFails ==
    /\ db_pc = "extract_video_id"
    /\ ExtractRaises
    /\ db_pc' = "raised"
    /\ UNCHANGED <<check_existing, db_video, db_clips, is_new_video, returned_clips, pv_calls>>
    /\ UNCHANGED <<fgVars, vadVars, splitVars, enhVars, pvVars, storeVars, srvVars>>

\* lines 399-403: check_video_exists returns the row or None
DbCheck ==
    /\ db_pc = "check"
    /\ IF db_video
       THEN is_new_video' = FALSE /\ db_pc' = "fetch_clips"
       ELSE is_new_video' = is_new_video /\ db_pc' = "process_video"
    /\ UNCHANGED <<check_existing, db_video, db_clips, returned_clips, pv_calls>>
    /\ UNCHANGED <<fgVars, vadVars, splitVars, enhVars, pvVars, urlVars, storeVars, srvVars>>

\* line 400: check_video_exists raises (database_service.py 37-39)
DbCheckFails ==
    /\ db_pc = "check"
    /\ db_pc' = "raised"
    /\ UNCHANGED <<check_existing, db_video, db_clips, is_new_video, returned_clips, pv_calls>>
    /\ UNCHANGED <<fgVars, vadVars, splitVars, enhVars, pvVars, urlVars, storeVars, srvVars>>

\* lines 405-428: the metadata is copied, the Audio rows are fetched, one clip
\* record is built for each, and the function returns
DbFetchClips ==
    /\ db_pc = "fetch_clips"
    /\ returned_clips' = [k \in 1..Len(db_clips) |-> DbClipRecord(db_clips[k])]
    /\ db_pc' = "returned"
    /\ UNCHANGED <<check_existing, db_video, db_clips, is_new_video, pv_calls>>
    /\ UNCHANGED <<fgVars, vadVars, splitVars, enhVars, pvVars, urlVars, storeVars, srvVars>>

\* line 417: get_video_audio_clips raises (database_service.py 245-247)
DbFetchClipsFails ==
    /\ db_pc = "fetch_clips"
    /\ db_pc' = "raised"
    /\ UNCHANGED <<check_existing, db_video, db_clips, is_new_video, returned_clips, pv_calls>>
    /\ UNCHANGED <<fgVars, vadVars, splitVars, enhVars, pvVars, urlVars, storeVars, srvVars>>

\* line 431: process_video is called with the same url
DbCallProcessVideo ==
    /\ db_pc = "process_video"
    /\ pc = "idle"
    /\ pc' = "extract_video_id"
    /\ url_pc' = "call"
    /\ video_id' = <<>>
    /\ pv_calls' = pv_calls + 1
    /\ db_pc' = "in_process_video"
    /\ UNCHANGED <<exc, temp_file, raw_file, stage_log, result, url>>
    /\ UNCHANGED <<check_existing, db_video, db_clips, is_new_video, returned_clips>>
    /\ UNCHANGED <<fgVars, vadVars, splitVars, enhVars, storeVars, srvVars>>

\* lines 431-439: process_video has returned, and so does the function
DbProcessReturned ==
    /\ db_pc = "in_process_video"
    /\ pc = "done"
    /\ exc = "none"
    /\ db_pc' = "returned"
    /\ UNCHANGED <<check_existing, db_video, db_clips, is_new_video, returned_clips, pv_calls>>
    /\ UNCHANGED <<fgVars, vadVars, splitVars, enhVars, pvVars, urlVars, storeVars, srvVars>>

\* line 431: process_video has raised, and the exception leaves the function
DbProcessRaised ==
    /\ db_pc = "in_process_video"
    /\ pc = "done"
    /\ exc # "none"
    /\ db_pc' = "raised"
    /\ UNCHANGED <<check_existing, db_video, db_clips, is_new_video, returned_clips, pv_calls>>
    /\ UNCHANGED <<fgVars, vadVars, splitVars, enhVars, pvVars, urlVars, storeVars, srvVars>>

(***************************************************************************)
(* DatabaseService.save_audio_clip (database_service.py 129-220) and the   *)
(* later reconstruction by process_video_with_database                     *)
(***************************************************************************)
\* floor(log2(n / d)) for positive n and d
RECURSIVE Log2Floor(_, _)
Log2Floor(n, d) ==
    IF n >= 2 * d THEN Log2Floor(n, 2 * d) + 1
    ELSE IF n < d THEN Log2Floor(2 * n, d) - 1
    ELSE 0

RECURSIVE Pow2Mod100(_)
Pow2Mod100(p) == IF p = 0 THEN 1 ELSE (2 * Pow2Mod100(p - 1)) % 100

RECURSIVE Pow2(_)
Pow2(j) == IF j = 0 THEN 1 ELSE 2 * Pow2(j - 1)

\* lines 157, 178: int((seconds % 1) * 1000000), for a time of ms
\* milliseconds that is a multiple of 10 ms (round(x, 2) made it), as IEEE-754
\* double arithmetic computes it.  With c = ms / 10 and f = c % 100, the double
\* nearest to c / 100 has 52 - e fraction bits, e = floor(log2(c / 100)); it lies
\* below c / 100 when r = c * 2^(52 - e) mod 100 is in 1..49, by r / 100 units in
\* the last place.  The % 1 is exact; the product with 1000000 rounds back to
\* f * 10000 unless the shortfall exceeds half a unit in the last place of the
\* product, and int() truncates.
Microsecond(ms) ==
    LET c == ms \div 10
        f == c % 100
        e == Log2Floor(c, 100)
        r == (f * Pow2Mod100(52 - e)) % 100
        j == Log2Floor(f * 10000, 1) - 1 - e
    IN  IF f = 0 THEN 0
        ELSE IF r > 0 /\ r < 50 /\ (j < 0 \/ r * 10000 > Pow2(j))
             THEN f * 10000 - 1
             ELSE f * 10000

\* lines 160, 181: hours = (total_seconds // 3600) % 24
WrapHour_unwrapped(h) == h
WrapHour(h) == h % 24

\* lines 155-169, 175-190: the datetime.time built from a time in seconds
TimeOf(ms) ==
    LET total_seconds == ms \div 1000
    IN  <<WrapHour(total_seconds \div 3600), (total_seconds % 3600) \div 60,
          total_seconds % 60, Microsecond(ms)>>

\* lines 195-203: the Audio row built from clip_data
AudioOf(cd) ==
    [audio_filename |-> cd.clip_name,
     start_time |-> TimeOf(cd.start_time),
     end_time |-> TimeOf(cd.end_time),
     padded_duration |-> cd.padded_duration]

\* the clips save_audio_clip is called with: <<start, end>> in ms, as
\* split_with_vad records them, among them pairs 86400 s apart
StoredSpans ==
    {<<0, 4000>>, <<290, 5290>>, <<1190, 6190>>, <<1500, 6250>>,
     <<86400000, 86404000>>, <<86400290, 86405290>>, <<86401190, 86406190>>}

ClipInputs == {ClipRecord(VideoId, 0, sp[1], sp[2], 1000, 500) : sp \in StoredSpans}

StoreIdle ==
    /\ saved_inputs = <<>>
    /\ save_errors = 0

\* routes/youtube.py 559: the video row is stored, its clips are about to be
StoreInit ==
    /\ db_pc = "idle"
    /\ check_existing = TRUE
    /\ db_video = TRUE
    /\ db_clips = <<>>
    /\ is_new_video = TRUE
    /\ returned_clips = <<>>
    /\ pv_calls = 0
    /\ saved_inputs = <<>>
    /\ save_errors = 0

\* lines 147-210: the times are converted, the row is added and committed
StoreSave ==
    \E cd \in ClipInputs :
        /\ db_pc = "idle"
        /\ Len(db_clips) < MaxStoredClips
        /\ db_clips' = Append(db_clips, AudioOf(cd))
        /\ saved_inputs' = Append(saved_inputs, cd)
        /\ UNCHANGED <<db_pc, check_existing, db_video, is_new_video, returned_clips,
                       pv_calls, save_errors>>
        /\ UNCHANGED <<fgVars, vadVars, splitVars, enhVars, pvVars, urlVars, srvVars>>

\* lines 212-220: the commit raises, the session is rolled back and the
\* exception raised; routes/youtube.py 609-610 logs it
StoreSaveFails ==
    /\ db_pc = "idle"
    /\ save_errors < MaxStoredClips
    /\ save_errors' = save_errors + 1
    /\ UNCHANGED <<saved_inputs, dbVars>>
    /\ UNCHANGED <<fgVars, vadVars, splitVars, enhVars, pvVars, urlVars, srvVars>>

\* a later request: process_video_with_database is called for the same url
StoreCallWithDatabase ==
    /\ db_pc = "idle"
    /\ db_pc' = "extract_video_id"
    /\ UNCHANGED <<check_existing, db_video, db_clips, is_new_video, returned_clips, pv_calls>>
    /\ UNCHANGED <<fgVars, vadVars, splitVars, enhVars, pvVars, urlVars, storeVars, srvVars>>

(***************************************************************************)
(* The server: split_youtube_audio and process_youtube_video               *)
(* (server/app/routes/youtube.py 43-48, 67-176, 498-642),                  *)
(* DatabaseService.save_video_metadata (database_service.py 66-126) and    *)
(* the /health route, as coroutines on the one event loop uvicorn.run      *)
(* starts (server/app/main.py 103).  All requests name the same video.     *)
(***************************************************************************)
Tasks == 1..MaxRequests

\* lines 45-46: if youtube_processor is None: youtube_processor = YouTubeProcessor()
NeedsConstruction_always(p) == TRUE
NeedsConstruction(p) == p = 0

\* lines 43-48 with a constructor that returns: the global after the call;
\* a new instance is named by the number of model handles loaded so far
ProcessorAfterGet(p, loads) == IF NeedsConstruction(p) THEN loads + 1 ELSE p

\* youtube_processor.py 47: init_df() runs once in each construction
LoadsAfterGet(p, loads) == IF NeedsConstruction(p) THEN loads + 1 ELSE loads

\* youtube_processor.py 335-361: the stages are plain calls in the coroutine
\* (download_audio is awaited but holds no await of its own), so each runs on
\* the event loop thread
BlockingStages == {"download", "inference", "split"}
RunsOnEventLoop_offloaded(stage) == FALSE
RunsOnEventLoop(stage) == TRUE

\* the thread of control when request t goes on in a stage
MayRun(t, stage) == IF RunsOnEventLoop(stage) THEN running = t ELSE TRUE
LoopEntering(t, stage) ==
    IF RunsOnEventLoop(stage) THEN t ELSE IF running = t THEN 0 ELSE running
LoopLeaving(t) == IF running = t THEN 0 ELSE running

\* models/youtube_video.py 23: video_id is unique, so a commit that would add
\* a second row with the id raises IntegrityError
CommitViolatesUnique_never(rows) == FALSE
CommitViolatesUnique(rows) == rows # <<>>

\* the clip records a pipeline run returns (split_with_vad, lines 313-319)
PipelineClips(k) ==
    [i \in 1..k |-> ClipRecord(VideoId, i, i * 20000, i * 20000 + 5000, 1000, 500)]

\* routes/youtube.py 566-572: the keys the clip loop subscripts
RouteReads == {"clip_path", "clip_name", "duration", "start_time", "end_time"}
CarriesFields(rec) == RouteReads \subseteq DOMAIN rec

\* lines 565-632 with the three options off: a missing key is a KeyError, which
\* the handler at 635-642 turns into HTTP 500
ResponseAfterLoop(clips) ==
    IF \A k \in 1..Len(clips) : CarriesFields(clips[k]) THEN "200" ELSE "500"
TotalAfterLoop(clips) ==
    IF \A k \in 1..Len(clips) : CarriesFields(clips[k]) THEN Len(clips) ELSE -1

SrvIdle ==
    /\ task_pc = [t \in Tasks |-> "idle"]
    /\ task_route = [t \in Tasks |-> "split"]
    /\ running = 0
    /\ youtube_processor = 0
    /\ model_loads = 0
    /\ task_proc = [t \in Tasks |-> 0]
    /\ video_rows = <<>>
    /\ saved_video = [t \in Tasks |-> 0]
    /\ task_clips = [t \in Tasks |-> <<>>]
    /\ response = [t \in Tasks |-> "none"]
    /\ total_clips = [t \in Tasks |-> -1]
    /\ unrelated_served = 0

\* the process has started, the requests have arrived, nothing is persisted
SrvInit ==
    /\ task_pc = [t \in Tasks |-> "new"]
    /\ task_route \in [Tasks -> {"split", "process"}]
    /\ running = 0
    /\ youtube_processor = 0
    /\ model_loads = 0
    /\ task_proc = [t \in Tasks |-> 0]
    /\ video_rows = <<>>
    /\ saved_video = [t \in Tasks |-> 0]
    /\ task_clips = [t \in Tasks |-> <<>>]
    /\ response = [t \in Tasks |-> "none"]
    /\ total_clips = [t \in Tasks |-> -1]
    /\ unrelated_served = 0

notSrv == <<fgVars, vadVars, splitVars, enhVars, pvVars, urlVars, dbVars, storeVars>>

\* the request ends with an HTTP status
Respond(t, status, total) ==
    /\ task_pc' = [task_pc EXCEPT ![t] = "done"]
    /\ response' = [response EXCEPT ![t] = status]
    /\ total_clips' = [total_clips EXCEPT ![t] = total]

\* lines 94-97 / 527-530: get_youtube_processor().extract_video_id(...), then
\* await DatabaseService.check_video_exists
SrvStart ==
    \E t \in Tasks :
        /\ task_pc[t] = "new"
        /\ running = 0
        /\ youtube_processor' = ProcessorAfterGet(youtube_processor, model_loads)
        /\ model_loads' = LoadsAfterGet(youtube_processor, model_loads)
        /\ task_pc' = [task_pc EXCEPT ![t] = "await_check"]
        /\ UNCHANGED <<task_route, running, task_proc, video_rows, saved_video, task_clips,
                       response, total_clips, unrelated_served>>
        /\ UNCHANGED notSrv

\* line 46: YouTubeProcessor() raises (youtube_processor.py 46-47:
\* _check_dependencies or init_df); the global stays None, the route answers 500
SrvStartFails ==
    \E t \in Tasks :
        /\ task_pc[t] = "new"
        /\ running = 0
        /\ NeedsConstruction(youtube_processor)
        /\ Respond(t, "500", -1)
        /\ UNCHANGED <<task_route, running, youtube_processor, model_loads, task_proc,
                       video_rows, saved_video, task_clips, unrelated_served>>
        /\ UNCHANGED notSrv

\* lines 98-109 / 531-536: the video is stored, HTTP 409
SrvCheckFinds ==
    \E t \in Tasks :
        /\ task_pc[t] = "await_check"
        /\ running = 0
        /\ video_rows # <<>>
        /\ Respond(t, "409", -1)
        /\ UNCHANGED <<task_route, running, youtube_processor, model_loads, task_proc,
                       video_rows, saved_video, task_clips, unrelated_served>>
        /\ UNCHANGED notSrv

\* lines 112-118 / 635-642: check_video_exists raises, HTTP 500
SrvCheckFails ==
    \E t \in Tasks :
        /\ task_pc[t] = "await_check"
        /\ running = 0
        /\ Respond(t, "500", -1)
        /\ UNCHANGED <<task_route, running, youtube_processor, model_loads, task_proc,
                       video_rows, saved_video, task_clips, unrelated_served>>
        /\ UNCHANGED notSrv

\* lines 121-127: await get_youtube_processor().process_video(...); the
\* coroutine goes on into download_audio
SrvCallProcessVideo ==
    \E t \in Tasks :
        /\ task_pc[t] = "await_check"
        /\ task_route[t] = "split"
        /\ running = 0
        /\ video_rows = <<>>
        /\ youtube_processor' = ProcessorAfterGet(youtube_processor, model_loads)
        /\ model_loads' = LoadsAfterGet(youtube_processor, model_loads)
        /\ task_proc' = [task_proc EXCEPT ![t] = youtube_processor']
        /\ task_pc' = [task_pc EXCEPT ![t] = "download"]
        /\ running' = LoopEntering(t, "download")
        /\ UNCHANGED <<task_route, video_rows, saved_video, task_clips, response,
                       total_clips, unrelated_served>>
        /\ UNCHANGED notSrv

\* lines 539-547 and youtube_processor.py 395-400:
\* await get_youtube_processor().process_video_with_database(...), which
\* awaits check_video_exists
SrvCallWithDatabase ==
    \E t \in Tasks :
        /\ task_pc[t] = "await_check"
        /\ task_route[t] = "process"
        /\ running = 0
        /\ video_rows = <<>>
        /\ youtube_processor' = ProcessorAfterGet(youtube_processor, model_loads)
        /\ model_loads' = LoadsAfterGet(youtube_processor, model_loads)
        /\ task_proc' = [task_proc EXCEPT ![t] = youtube_processor']
        /\ task_pc' = [task_pc EXCEPT ![t] = "await_recheck"]
        /\ UNCHANGED <<task_route, running, video_rows, saved_video, task_clips, response,
                       total_clips, unrelated_served>>
        /\ UNCHANGED notSrv

\* youtube_processor.py 401-428 and routes 549-553: the video has been stored
\* meanwhile, is_new_video is False, HTTP 409
SrvRecheckFinds ==
    \E t \in Tasks :
        /\ task_pc[t] = "await_recheck"
        /\ running = 0
        /\ video_rows # <<>>
        /\ Respond(t, "409", -1)
        /\ UNCHANGED <<task_route, running, youtube_processor, model_loads, task_proc,
                       video_rows, saved_video, task_clips, unrelated_served>>
        /\ UNCHANGED notSrv

\* youtube_processor.py 431: await self.process_video(...)
SrvRecheckPasses ==
    \E t \in Tasks :
        /\ task_pc[t] = "await_recheck"
        /\ running = 0
        /\ video_rows = <<>>
        /\ task_pc' = [task_pc EXCEPT ![t] = "download"]
        /\ running' = LoopEntering(t, "download")
        /\ UNCHANGED <<task_route, youtube_processor, model_loads, task_proc, video_rows,
                       saved_video, task_clips, response, total_clips, unrelated_served>>
        /\ UNCHANGED notSrv

\* youtube_processor.py 337: download_audio returns; 341: enhance_audio_chunked
\* is entered
SrvDownload ==
    \E t \in Tasks :
        /\ task_pc[t] = "download"
        /\ MayRun(t, "download")
        /\ task_pc' = [task_pc EXCEPT ![t] = "inference"]
        /\ running' = LoopEntering(t, "inference")
        /\ UNCHANGED <<task_route, youtube_processor, model_loads, task_proc, video_rows,
                       saved_video, task_clips, response, total_clips, unrelated_served>>
        /\ UNCHANGED notSrv

\* youtube_processor.py 337: download_audio raises; the route answers 500
SrvDownloadFails ==
    \E t \in Tasks :
        /\ task_pc[t] = "download"
        /\ MayRun(t, "download")
        /\ Respond(t, "500", -1)
        /\ running' = LoopLeaving(t)
        /\ UNCHANGED <<task_route, youtube_processor, model_loads, task_proc, video_rows,
                       saved_video, task_clips, unrelated_served>>
        /\ UNCHANGED notSrv

\* youtube_processor.py 341-349: inference on self.model has ended; the
\* resampling and split_with_vad follow
SrvEnhance ==
    \E t \in Tasks :
        /\ task_pc[t] = "inference"
        /\ MayRun(t, "inference")
        /\ task_pc' = [task_pc EXCEPT ![t] = "split"]
        /\ running' = LoopEntering(t, "split")
        /\ UNCHANGED <<task_route, youtube_processor, model_loads, task_proc, video_rows,
                       saved_video, task_clips, response, total_clips, unrelated_served>>
        /\ UNCHANGED notSrv

\* youtube_processor.py 352-361 and routes 129-164: process_video returns k
\* clip records, the metadata files are written and the route answers
SrvSplitReturn ==
    \E t \in Tasks, k \in 0..MaxPipelineClips :
        /\ task_pc[t] = "split"
        /\ task_route[t] = "split"
        /\ MayRun(t, "split")
        /\ task_clips' = [task_clips EXCEPT ![t] = PipelineClips(k)]
        /\ Respond(t, "200", k)
        /\ running' = LoopLeaving(t)
        /\ UNCHANGED <<task_route, youtube_processor, model_loads, task_proc, video_rows,
                       saved_video, unrelated_served>>
        /\ UNCHANGED notSrv

\* youtube_processor.py 352-361, 439 and routes 549-559: process_video returns
\* k clip records, is_new_video is True, await save_video_metadata
SrvProcessReturn ==
    \E t \in Tasks, k \in 0..MaxPipelineClips :
        /\ task_pc[t] = "split"
        /\ task_route[t] = "process"
        /\ MayRun(t, "split")
        /\ task_clips' = [task_clips EXCEPT ![t] = PipelineClips(k)]
        /\ task_pc' = [task_pc EXCEPT ![t] = "await_save"]
        /\ running' = LoopLeaving(t)
        /\ UNCHANGED <<task_route, youtube_processor, model_loads, task_proc, video_rows,
                       saved_video, response, total_clips, unrelated_served>>
        /\ UNCHANGED notSrv

\* database_service.py 95-112: the row is committed and returned; routes
\* 563-632: the clip loop and the response
SrvSaveInserts ==
    \E t \in Tasks :
        /\ task_pc[t] = "await_save"
        /\ running = 0
        /\ ~CommitViolatesUnique(video_rows)
        /\ video_rows' = Append(video_rows, t)
        /\ saved_video' = [saved_video EXCEPT ![t] = t]
        /\ Respond(t, ResponseAfterLoop(task_clips[t]), TotalAfterLoop(task_clips[t]))
        /\ UNCHANGED <<task_route, running, youtube_processor, model_loads, task_proc,
                       task_clips, unrelated_served>>
        /\ UNCHANGED notSrv

\* database_service.py 114-121: IntegrityError on the unique constraint, rollback,
\* check_video_exists returns the stored row; routes 563-632 as above
SrvSaveFindsExisting ==
    \E t \in Tasks :
        /\ task_pc[t] = "await_save"
        /\ running = 0
        /\ CommitViolatesUnique(video_rows)
        /\ saved_video' = [saved_video EXCEPT ![t] = video_rows[1]]
        /\ Respond(t, ResponseAfterLoop(task_clips[t]), TotalAfterLoop(task_clips[t]))
        /\ UNCHANGED <<task_route, running, youtube_processor, model_loads, task_proc,
                       video_rows, task_clips, unrelated_served>>
        /\ UNCHANGED notSrv

\* database_service.py 123-126: any other exception is rolled back and raised
\* (-1: nothing was returned); the route answers 500
SrvSaveFails ==
    \E t \in Tasks :
        /\ task_pc[t] = "await_save"
        /\ running = 0
        /\ saved_video' = [saved_video EXCEPT ![t] = -1]
        /\ Respond(t, "500", -1)
        /\ UNCHANGED <<task_route, running, youtube_processor, model_loads, task_proc,
                       video_rows, task_clips, unrelated_served>>
        /\ UNCHANGED notSrv

\* routes/health.py 17-36: an unrelated request is answered when the event
\* loop thread is free to run its coroutine
SrvServeUnrelated ==
    /\ running = 0
    /\ unrelated_served < MaxUnrelated
    /\ unrelated_served' = unrelated_served + 1
    /\ UNCHANGED <<task_pc, task_route, running, youtube_processor, model_loads, task_proc,
                   video_rows, saved_video, task_clips, response, total_clips>>
    /\ UNCHANGED notSrv

(***************************************************************************)
(* Specifications                                                          *)
(***************************************************************************)
InitFrames == FgInit /\ VadIdle /\ SplitIdle /\ EnhIdle /\ PvIdle /\ UrlIdle /\ DbIdle /\ StoreIdle /\ SrvIdle
NextFrames == FgYield \/ FgStop
SpecFrames == InitFrames /\ [][NextFrames]_vars

InitVad == VadInit /\ FgIdle /\ SplitIdle /\ EnhIdle /\ PvIdle /\ UrlIdle /\ DbIdle /\ StoreIdle /\ SrvIdle
NextVad == VadFrameIdle \/ VadFrameTriggered \/ VadClassifyFails \/ VadFinish
SpecVad == InitVad /\ [][NextVad]_vars

\* vad_collector with a window of eleven frames
InitVadWide == VadInitWide /\ FgIdle /\ SplitIdle /\ EnhIdle /\ PvIdle /\ UrlIdle /\ DbIdle /\ StoreIdle /\ SrvIdle
NextVadWide == VadFrameIdle \/ VadFrameTriggered \/ VadClassifyFails \/ VadFinish
SpecVadWide == InitVadWide /\ [][NextVadWide]_vars

\* vad_collector as split_with_vad calls it, over every classifier outcome
InitVadDefault == VadInitDefault /\ FgIdle /\ SplitIdle /\ EnhIdle /\ PvIdle /\ UrlIdle /\ DbIdle /\ StoreIdle /\ SrvIdle
NextVadDefault == VadFrameIdle \/ VadFrameTriggered \/ VadClassifyFails \/ VadFinish
SpecVadDefault == InitVadDefault /\ [][NextVadDefault]_vars

\* vad_collector on the single-utterance scenario; its classifier answers every frame
InitScenario == VadInitScenario /\ FgIdle /\ SplitIdle /\ EnhIdle /\ PvIdle /\ UrlIdle /\ DbIdle /\ StoreIdle /\ SrvIdle
NextScenario == VadFrameIdle \/ VadFrameTriggered \/ VadFinish
SpecScenario == InitScenario /\ [][NextScenario]_vars

InitSplit == SplitInit /\ FgIdle /\ VadIdle /\ EnhIdle /\ PvIdle /\ UrlIdle /\ DbIdle /\ StoreIdle /\ SrvIdle
NextSplit == SplitSkip \/ SplitClip \/ SplitClipFails \/ SplitReturn
SpecSplit == InitSplit /\ [][NextSplit]_vars

InitEnhance == EnhInit /\ FgIdle /\ VadIdle /\ SplitIdle /\ PvIdle /\ UrlIdle /\ DbIdle /\ StoreIdle /\ SrvIdle
NextEnhance ==
    \/ EnhLoad
    \/ EnhLoadFails
    \/ EnhChunkEnhanced
    \/ EnhChunkInferenceFails
    \/ EnhChunkCacheClearFails
    \/ EnhConcatSave
    \/ EnhConcatFails
    \/ EnhSaveFails
SpecEnhance == InitEnhance /\ [][NextEnhance]_vars

\* extract_video_id called on a URL
InitUrl == UrlInit /\ FgIdle /\ VadIdle /\ SplitIdle /\ EnhIdle /\ PvIdle /\ DbIdle /\ StoreIdle /\ SrvIdle
NextUrl == UrlExtract \/ UrlExtractFails
SpecUrl == InitUrl /\ [][NextUrl]_vars

PvUrlInit ==
    /\ url \in PipelineUrls
    /\ url_pc = "call"
    /\ video_id = <<>>

Init == PvInit /\ PvUrlInit /\ EnhIdle /\ FgIdle /\ VadIdle /\ SplitIdle /\ DbIdle /\ StoreIdle /\ SrvIdle
Next ==
    \/ PvExtractId
    \/ PvExtractIdFails
    \/ PvCreateTemp
    \/ DlDownload
    \/ DlDownloadFails
    \/ DlLocate
    \/ DlTranscode
    \/ DlTranscodeFails
    \/ DlCleanupRaw
    \/ PvCallEnhance
    \/ NextEnhance
    \/ PvEnhanceReturned
    \/ PvEnhanceRaised
    \/ PvResample
    \/ PvResampleFails
    \/ PvSplit
    \/ PvSplitFails
    \/ PvFinally
Spec == Init /\ [][Next]_vars

\* process_video_with_database, with process_video inside it.  The id has been
\* extracted from the same url at line 395 before process_video is called, so
\* the extraction of line 330 cannot fail here.
InitDb == DbInit /\ PvIdle /\ PvUrlInit /\ EnhIdle /\ FgIdle /\ VadIdle /\ SplitIdle /\ StoreIdle /\ SrvIdle
NextDb ==
    \/ DbExtractId
    \/ DbExtractIdFails
    \/ DbCheck
    \/ DbCheckFails
    \/ DbFetchClips
    \/ DbFetchClipsFails
    \/ DbCallProcessVideo
    \/ PvExtractId
    \/ PvCreateTemp
    \/ DlDownload
    \/ DlDownloadFails
    \/ DlLocate
    \/ DlTranscode
    \/ DlTranscodeFails
    \/ DlCleanupRaw
    \/ PvCallEnhance
    \/ NextEnhance
    \/ PvEnhanceReturned
    \/ PvEnhanceRaised
    \/ PvResample
    \/ PvResampleFails
    \/ PvSplit
    \/ PvSplitFails
    \/ PvFinally
    \/ DbProcessReturned
    \/ DbProcessRaised
SpecDb == InitDb /\ [][NextDb]_vars

\* save_audio_clip for the clips of a stored video, then a later
\* process_video_with_database for it
InitStore == StoreInit /\ PvIdle /\ PvUrlInit /\ EnhIdle /\ FgIdle /\ VadIdle /\ SplitIdle /\ SrvIdle
NextStore ==
    \/ StoreSave
    \/ StoreSaveFails
    \/ StoreCallWithDatabase
    \/ DbExtractId
    \/ DbExtractIdFails
    \/ DbCheck
    \/ DbCheckFails
    \/ DbFetchClips
    \/ DbFetchClipsFails
SpecStore == InitStore /\ [][NextStore]_vars

\* the requests of one server process
InitServer == SrvInit /\ StoreIdle /\ DbIdle /\ PvIdle /\ UrlIdle /\ EnhIdle /\ FgIdle /\ VadIdle /\ SplitIdle
NextServer ==
    \/ SrvStart
    \/ SrvStartFails
    \/ SrvCheckFinds
    \/ SrvCheckFails
    \/ SrvCallProcessVideo
    \/ SrvCallWithDatabase
    \/ SrvRecheckFinds
    \/ SrvRecheckPasses
    \/ SrvDownload
    \/ SrvDownloadFails
    \/ SrvEnhance
    \/ SrvSplitReturn
    \/ SrvProcessReturn
    \/ SrvSaveInserts
    \/ SrvSaveFindsExisting
    \/ SrvSaveFails
    \/ SrvServeUnrelated
SpecServer == InitServer /\ [][NextServer]_vars

(***************************************************************************)
(* Claims                                                                  *)
(***************************************************************************)
\* C1: the segments vad_collector has collected are strictly ordered by start
\* time and do not overlap: for consecutive segments, end[i] <= start[i+1].
C1_SegmentsOrdered ==
    \A i \in 1..(Len(segments) - 1) :
        /\ segments[i][1] < segments[i + 1][1]
        /\ segments[i][2] <= segments[i + 1][1]

\* two segments were returned, the second starting exactly where the first ends
C1_Witness ==
    /\ vad_pc = "done"
    /\ Len(segments) >= 2
    /\ segments[1][2] = segments[2][1]

\* the segments that hold the frame starting at t
SegmentsHolding(t) ==
    {i \in 1..Len(segments) :
        segments[i][1] <= t /\ t + frame_duration_ms <= segments[i][2]}

\* C2: when the frames run out while triggered, the accumulated run is the last
\* segment returned; and every frame ever appended to voiced_frames lies inside
\* exactly one returned segment.
C2_NoDroppedRun ==
    vad_pc = "done" =>
        /\ triggered => (segments # <<>> /\ Last(segments) = SegmentOf(voiced_frames))
        /\ \A t \in voiced_log : Cardinality(SegmentsHolding(t)) = 1

\* the input ended while triggered, after an earlier segment had been closed
C2_Witness ==
    /\ vad_pc = "done"
    /\ triggered
    /\ Len(segments) >= 2
    /\ voiced_frames # <<>>

\* C3 (amended): for every buffer length L and every frame_duration_ms that gives
\* a frame size n >= 1, every frame yielded has exactly n bytes inside the buffer,
\* and the generator ends having yielded exactly floor(L / n) frames.
C3_FrameCount ==
    LET n == FrameBytes(fg_sample_rate, fg_frame_ms) IN
    n >= 1 =>
        /\ \A k \in 1..Len(fg_frames) :
              /\ fg_frames[k].hi - fg_frames[k].lo = n
              /\ fg_frames[k].hi <= fg_len
        /\ fg_pc = "done" => Len(fg_frames) = fg_len \div n

\* the generator ended after two or more frames, leaving trailing bytes
C3_Witness ==
    LET n == FrameBytes(fg_sample_rate, fg_frame_ms) IN
    /\ fg_pc = "done"
    /\ n >= 1
    /\ Len(fg_frames) >= 2
    /\ fg_len % n # 0

\* C3 as stated: for every L and every frame_duration_ms the generator
\* terminates (each frame yielded uses up bytes of the buffer) having yielded
\* exactly floor(L / n) frames.
C3_Original ==
    /\ [](fg_pc = "done" =>
            Len(fg_frames) = fg_len \div FrameBytes(fg_sample_rate, fg_frame_ms))
    /\ [][Len(fg_frames') > Len(fg_frames) => fg_len - fg_offset' < fg_len - fg_offset]_vars

\* the <<start_time, end_time>> of each clip record, in order
ClipSpans == [k \in 1..Len(clips_data) |-> <<clips_data[k].start_time, clips_data[k].end_time>>]

\* MIN_CLIP_DURATION <= end - start <= MAX_CLIP_DURATION
InBounds(seg) ==
    /\ MIN_CLIP_DURATION <= seg[2] - seg[1]
    /\ seg[2] - seg[1] <= MAX_CLIP_DURATION

\* the segments consumed so far that lie within the bounds, as rounded spans
WantedSpans ==
    LET kept == SelectSeq(SubSeq(split_segments, 1, seg_index), InBounds)
    IN  [k \in 1..Len(kept) |-> <<Round2(kept[k][1]), Round2(kept[k][2])>>]

\* C9: the clips recorded are exactly the segments consumed whose raw duration d
\* satisfies MIN_CLIP_DURATION <= d <= MAX_CLIP_DURATION, in order: a segment is
\* accepted iff its duration is within the inclusive bounds, wherever it falls.
C9_AcceptByDuration == ClipSpans = WantedSpans

\* a segment of exactly MIN_CLIP_DURATION and one of exactly MAX_CLIP_DURATION
\* were accepted, after a rejected segment
C9_Witness ==
    /\ split_pc = "done"
    /\ Len(split_segments) = 3
    /\ split_segments[1][2] - split_segments[1][1] = 10020
    /\ Len(clips_data) = 2
    /\ clips_data[1].duration = MIN_CLIP_DURATION
    /\ clips_data[2].duration = MAX_CLIP_DURATION

RECURSIVE ParseDigits(_)
\* the number a digit string denotes
ParseDigits(ds) ==
    IF ds = <<>> THEN 0 ELSE 10 * ParseDigits(SubSeq(ds, 1, Len(ds) - 1)) + Last(ds)

C4_SameLength == saved_samples # -1 => saved_samples = total_samples

\* C5 as stated: when the chunk loop has ended, enhanced_chunks holds one entry
\* per input chunk, entry i coming from window
\* [i*chunk_size, min((i+1)*chunk_size, total)).
C5_OneEntryPerWindow ==
    LET cs == ChunkSize(chunk_duration_seconds) IN
    (LoopEnded \/ enh_pc = "returned") =>
        /\ Len(enhanced_chunks) = NumChunks(total_samples, cs)
        /\ \A k \in 1..Len(enhanced_chunks) :
              /\ enhanced_chunks[k].lo = (k - 1) * cs
              /\ enhanced_chunks[k].hi = Min(k * cs, total_samples)

\* C6: in the step in which a per-chunk try block raises, nothing propagates
\* (no exception is pending in enhance_audio_chunked or process_video), the
\* original chunk of that window is the entry appended last, and control stays
\* in the chunk loop, from where the pipeline goes on.
C6_FailureAbsorbed ==
    [][chunk_fail_log' # chunk_fail_log =>
          /\ enh_pc' = "loop"
          /\ enh_exc' = "none"
          /\ pc' = "enhance"
          /\ exc' = "none"
          /\ enhanced_chunks' # enhanced_chunks
          /\ Last(enhanced_chunks') = OriginalChunk(CurrentWindow)]_vars

\* process_video returned normally, through resampling and segmentation, after
\* the inference of a chunk had failed
C6_Witness ==
    /\ pc = "done"
    /\ exc = "none"
    /\ \E i \in 0..MaxFullChunks : <<i, "enhance">> \in chunk_fail_log

\* C7: when process_video has finished, by returning or by raising, the
\* temporary WAV file does not exist.
C7_TempRemoved == pc = "done" => ~temp_file

\* process_video raised from the format check of split_with_vad, after the
\* temporary file had been created and rewritten
C7_Witness ==
    /\ pc = "done"
    /\ exc = "AssertionError"
    /\ saved_samples # -1
    /\ ~temp_file

\* C8 as stated: when download_audio has finished, by returning or by raising,
\* the raw downloaded file does not exist (here: at the latest when its caller
\* process_video has finished).
C8_RawRemoved == pc = "done" => raw_file = "none"

\* the segments consumed so far that the duration filter keeps, in order
KeptSegments == SelectSeq(SubSeq(split_segments, 1, seg_index), InBounds)

\* C11: once split_with_vad has returned, the clip files written are exactly the
\* clip names of the records returned, one file per record, and every record is
\* the record of a segment whose raw duration is within
\* [MIN_CLIP_DURATION, MAX_CLIP_DURATION]; a rejected segment left no file.
C11_FilesMatchRecords ==
    split_pc = "done" =>
        /\ clip_files = {clips_data[k].clip_name : k \in 1..Len(clips_data)}
        /\ Cardinality(clip_files) = Len(clips_data)
        /\ Len(clips_data) = Len(KeptSegments)
        /\ \A k \in 1..Len(clips_data) :
              /\ clips_data[k].start_time = Round2(KeptSegments[k][1])
              /\ clips_data[k].end_time = Round2(KeptSegments[k][2])
              /\ MIN_CLIP_DURATION <= KeptSegments[k][2] - KeptSegments[k][1]
              /\ KeptSegments[k][2] - KeptSegments[k][1] <= MAX_CLIP_DURATION

\* the call returned two clips and two files from three segments, the middle
\* one rejected
C11_Witness ==
    /\ split_pc = "done"
    /\ Len(split_segments) = 3
    /\ ~InBounds(split_segments[2])
    /\ Len(clips_data) = 2
    /\ Cardinality(clip_files) = 2

\* C14: every clip recorded carries padded_duration =
\* round(raw duration + start_padding + end_padding, 2), the raw duration being
\* the unrounded end - start of its segment.
C14_PaddedDuration ==
    \A k \in 1..Len(clips_data) :
        clips_data[k].padded_duration =
            Round2((KeptSegments[k][2] - KeptSegments[k][1]) + start_padding + end_padding)

\* a clip whose padded sum is not a whole
\* hundredth: 10 s of speech padded by 1.007 s and 0.502 s is recorded as 11.51 s
C14_Witness ==
    /\ split_pc = "done"
    /\ start_padding = 1007
    /\ end_padding = 502
    /\ Len(clips_data) >= 1
    /\ clips_data[1].duration = 10000
    /\ clips_data[1].padded_duration = 11510

\* the ring buffer of a loop iteration once the frame at hand has been appended
\* (line 227 or 237), before any clear
RingWithFrame ==
    DequeAppend(ring_buffer,
                [frame |-> VadFrame(frame_index, frame_duration_ms), speech |-> is_speech'],
                NumPaddingFrames(padding_duration_ms, frame_duration_ms))

\* C13: on the single-utterance scenario (20 s, speech from 5.0 s to 8.0 s, 30 ms
\* frames, 300 ms window) the collector returns exactly one segment, which
\* starts within 0.3 s of 5.0 s and ends within 0.31 s of 8.0 s, whatever the
\* classifier answers for the two frames that straddle the ends of the speech.
C13_OneSegment ==
    vad_pc = "done" =>
        /\ Len(segments) = 1
        /\ ScenarioSpeech[1] - 300 <= segments[1][1]
        /\ segments[1][1] <= ScenarioSpeech[1] + 300
        /\ ScenarioSpeech[2] - 310 <= segments[1][2]
        /\ segments[1][2] <= ScenarioSpeech[2] + 310

\* the collector returned the one segment of a run in which the frame that
\* straddles 8.0 s was classified as speech
C13_Witness ==
    /\ vad_pc = "done"
    /\ frame_index = ScenarioFrames
    /\ Len(segments) = 1
    /\ segments[1][2] = 8310

\* C13 as stated: the segment ends within 0.3 s of 8.0 s
C13_Original ==
    vad_pc = "done" =>
        /\ Len(segments) = 1
        /\ ScenarioSpeech[1] - 300 <= segments[1][1]
        /\ segments[1][1] <= ScenarioSpeech[1] + 300
        /\ ScenarioSpeech[2] - 300 <= segments[1][2]
        /\ segments[1][2] <= ScenarioSpeech[2] + 300

\* C16: both transitions compare a count of the frames in the ring buffer with
\* 90% of the buffer's capacity N: a frame consumed while idle triggers exactly
\* when more than 0.9 * N of the buffered frames are speech, one consumed while
\* triggered untriggers exactly when more than 0.9 * N of them are non-speech,
\* however many frames the buffer holds.
C16_ThresholdOnCapacity ==
    [][frame_index' = frame_index + 1 =>
         /\ ~triggered =>
              (triggered' <=>
                  10 * CountSpeech(RingWithFrame, TRUE)
                      > 9 * NumPaddingFrames(padding_duration_ms, frame_duration_ms))
         /\ triggered =>
              (~triggered' <=>
                  10 * CountSpeech(RingWithFrame, FALSE)
                      > 9 * NumPaddingFrames(padding_duration_ms, frame_duration_ms))]_vars

\* both transitions have happened with an eleven-frame window: a trigger that
\* flushed the frames from the first on, and ten frames later an untrigger
C16_Witness ==
    /\ vad_pc = "loop"
    /\ NumPaddingFrames(padding_duration_ms, frame_duration_ms) = 11
    /\ frame_index = 21
    /\ ~triggered
    /\ segments = <<<<0, 630>>>>

\* C16 as stated: the counts are compared with 90% of the frames the buffer
\* holds at the time
C16_Original ==
    [][frame_index' = frame_index + 1 =>
         /\ ~triggered =>
              (triggered' <=>
                  10 * CountSpeech(RingWithFrame, TRUE) > 9 * Len(RingWithFrame))
         /\ triggered =>
              (~triggered' <=>
                  10 * CountSpeech(RingWithFrame, FALSE) > 9 * Len(RingWithFrame))]_vars

\* C17: the step that triggers moves every frame of the ring buffer, the
\* non-speech ones too, to voiced_frames in arrival order and leaves the buffer
\* empty; the accumulated run, and so the segment emitted for it, starts at the
\* timestamp of the oldest buffered frame.
C17_TriggerFlushesBuffer ==
    [][/\ (~triggered /\ triggered') =>
            /\ voiced_frames' =
                  [k \in 1..Len(RingWithFrame) |->
                      VadFrame(frame_index + 1 - Len(RingWithFrame) + (k - 1),
                               frame_duration_ms)]
            /\ voiced_frames'[1].timestamp = RingWithFrame[1].frame.timestamp
            /\ ring_buffer' = <<>>
       /\ (triggered /\ Len(segments') = Len(segments) + 1) =>
            Last(segments')[1] = voiced_frames[1].timestamp]_vars

\* the eleventh frame triggered and eleven frames were flushed, so one of them
\* was not speech
C17_Witness ==
    /\ vad_pc = "loop"
    /\ triggered
    /\ frame_index = 11
    /\ Len(voiced_frames) = 11
    /\ voiced_frames[1].timestamp = 0
    /\ ring_buffer = <<>>

\* C18: the step that untriggers appends exactly one segment, from the
\* timestamp of the first accumulated frame to the end (timestamp + duration)
\* of the frame that caused it, and leaves both the ring buffer and
\* voiced_frames empty.
C18_UntriggerEmitsOne ==
    [][(triggered /\ ~triggered') =>
          /\ segments' =
                Append(segments,
                       <<voiced_frames[1].timestamp,
                         VadFrame(frame_index, frame_duration_ms).timestamp
                            + VadFrame(frame_index, frame_duration_ms).duration>>)
          /\ ring_buffer' = <<>>
          /\ voiced_frames' = <<>>]_vars

\* a segment has just been emitted by an untrigger: it ends with the frame
\* consumed last, and both lists are empty
C18_Witness ==
    /\ vad_pc = "loop"
    /\ ~triggered
    /\ frame_index >= 4
    /\ Len(segments) >= 1
    /\ Last(segments)[1] > 0
    /\ Last(segments)[2] = frame_index * frame_duration_ms
    /\ ring_buffer = <<>>
    /\ voiced_frames = <<>>

HoldsLink(u) ==
    \E p \in 1..Len(u) :
        /\ u[p] \in {"youtube.com/watch?v=", "youtube.com/embed/", "youtu.be/",
                     "youtube.com/v/"}
        /\ p + 11 <= Len(u)
        /\ \A j \in 1..11 : u[p + j] \in IdChars

\* C15: called on a watch?v=, /embed/, youtu.be/ or /v/ URL of an 11-character
\* id, with or without a query after it, extract_video_id returns that id, so
\* the watch and the short link of one id give the same result; called on a URL
\* that holds none of the four shapes it raises ValueError and returns nothing.
C15_ExtractsId ==
    /\ url_pc \in {"returned", "raised"} =>
          /\ \A pre \in UrlPrefixes, v \in VideoIds, suffix \in {<<>>, QuerySuffix} :
                \A link \in {"youtube.com/watch?v=", "youtube.com/embed/", "youtu.be/",
                             "youtube.com/v/"} :
                    url = <<pre, link>> \o v \o suffix =>
                        (url_pc = "returned" /\ video_id = v)
          /\ ~HoldsLink(url) => (url_pc = "raised" /\ video_id = <<>>)
    /\ \A v \in VideoIds :
          ExtractVideoId(<<"https://www.", "youtube.com/watch?v=">> \o v)
              = ExtractVideoId(<<"https://", "youtu.be/">> \o v)

\* the id was returned from a short link that carries a query
C15_Witness ==
    /\ url_pc = "returned"
    /\ url[2] = "youtu.be/"
    /\ Len(url) = 2 + 11 + Len(QuerySuffix)
    /\ video_id = SubSeq(url, 3, 13)
    /\ video_id \in VideoIds

\* the stage an exception of process_video comes from
StageOfFailure(kind) ==
    CASE kind = "ValueError" -> "extract_video_id"
      [] kind \in {"RuntimeError: YouTube download failed", "FileNotFoundError"} -> "download"
      [] kind = "RuntimeError: Audio conversion failed" -> "transcode"
      [] kind \in {"load_audio", "torch.cat", "save_audio", "ZeroDivisionError"} -> "enhance"
      [] kind = "resample" -> "resample"
      [] kind \in {"AssertionError", "classification", "clip_writing"} -> "split"

\* C20: once a stage of process_video has failed (anything but the inference
\* of a chunk) the exception stays pending until it reaches the caller, no
\* return value is produced, and the failed stage is the last one started; a
\* failed id extraction comes before the temporary file and the download.
C20_FailurePropagates ==
    [][/\ exc' # "none" =>
            /\ result' = "none"
            /\ pc' \in {"finally", "done"}
            /\ Last(stage_log') = StageOfFailure(exc')
       /\ exc # "none" => exc' = exc
       /\ exc' = "ValueError" =>
            /\ stage_log' = <<"extract_video_id">>
            /\ ~temp_file'
            /\ raw_file' = "none"]_vars

\* the frame classifier failed inside split_with_vad and process_video has
\* raised to its caller
C20_Witness ==
    /\ pc = "done"
    /\ exc = "classification"
    /\ result = "none"
    /\ stage_log = <<"extract_video_id", "tempfile", "download", "transcode",
                     "enhance", "resample", "split">>

StageEntered ==
    IF Len(stage_log') = Len(stage_log) + 1 THEN Last(stage_log') ELSE "none"

\* C21: within one process_video invocation the stages start in the order
\* download (with its transcode), chunked enhancement, resampling, segmentation,
\* and each starts only when the one before has completed: enhancement when
\* download_audio has written the WAV and removed the raw file, resampling when
\* enhance_audio_chunked has returned with its output saved, segmentation when
\* the resampling has returned; while enhancement runs no other stage moves.
C21_StagesInOrder ==
    [][/\ \E k \in 0..7 :
            stage_log' = SubSeq(<<"extract_video_id", "tempfile", "download", "transcode",
                                  "enhance", "resample", "split">>, 1, k)
       /\ StageEntered = "enhance" =>
            (pc = "enhance" /\ Last(stage_log) = "transcode" /\ raw_file = "none"
             /\ temp_file /\ exc = "none" /\ enh_pc = "idle")
       /\ StageEntered = "resample" =>
            (pc = "resample" /\ Last(stage_log) = "enhance" /\ enh_pc = "returned"
             /\ saved_samples # -1 /\ exc = "none")
       /\ StageEntered = "split" =>
            (pc = "split" /\ Last(stage_log) = "resample" /\ enh_pc = "returned"
             /\ exc = "none")
       /\ enh_pc' \in {"load", "loop"} => pc' = "enhance"]_vars

\* all four stages have started, one after the other, and process_video is
\* about to return
C21_Witness ==
    /\ pc = "finally"
    /\ exc = "none"
    /\ result = "clips"
    /\ enh_pc = "returned"
    /\ stage_log = <<"extract_video_id", "tempfile", "download", "transcode",
                     "enhance", "resample", "split">>

\* the requests whose pipeline invocation is inside enhancement inference
InInference == {t \in Tasks : task_pc[t] = "inference"}

\* C22: under any interleaving of the requests of one process, at most one
\* pipeline invocation is inside enhancement inference at a time, and the one
\* that is holds the event loop thread and runs on the shared instance.
C22_InferenceSerialized ==
    /\ Cardinality(InInference) <= 1
    /\ \A t \in InInference : running = t /\ task_proc[t] = youtube_processor

\* one request is inside inference while another, bound to the same instance,
\* is suspended in the middle of its handler
C22_Witness ==
    \E t, u \in Tasks :
        /\ t # u
        /\ task_pc[t] = "inference"
        /\ task_pc[u] = "await_recheck"
        /\ task_proc[u] # 0
        /\ task_proc[u] = task_proc[t]

\* C23: across the requests of one process the model handle is loaded at most
\* once: the global holds the first instance constructed, and every pipeline
\* invocation runs on that instance.
C23_LoadedOnce ==
    /\ model_loads <= 1
    /\ youtube_processor = model_loads
    /\ \A t \in Tasks : task_proc[t] \in {0, youtube_processor}

\* two pipeline invocations have run on the one instance
C23_Witness ==
    \E t, u \in Tasks :
        /\ t # u
        /\ task_proc[t] = 1
        /\ task_proc[u] = 1
        /\ task_pc[t] \in BlockingStages \cup {"await_save", "done"}
        /\ task_pc[u] \in BlockingStages \cup {"await_save", "done"}
        /\ model_loads = 1

\* C24: while a pipeline invocation is in a blocking stage (download and
\* transcode, inference, resampling and clip file I/O), the event loop thread
\* is not held by it, so an unrelated request can be served.
C24_BlockingOffLoop ==
    \A t \in Tasks : task_pc[t] \in BlockingStages => running # t

\* C25: two process-youtube requests for one unstored id leave at most one
\* video row, every request that save_video_metadata returned to holds that
\* one row, and a request whose commit meets the stored row gets that row back
\* (-1 is a database failure other than the unique constraint).
C25_OneVideoRecord ==
    /\ [](/\ Len(video_rows) <= 1
          /\ \A t \in Tasks : saved_video[t] > 0 => video_rows = <<saved_video[t]>>)
    /\ [][\A t \in Tasks :
            (task_pc[t] = "await_save" /\ task_pc'[t] = "done" /\ video_rows # <<>>)
                => saved_video'[t] \in {video_rows[1], -1}]_vars

\* both requests ran the pipeline; one inserted the row, the other lost the
\* insert and holds the winner's row
C25_Witness ==
    \E t, u \in Tasks :
        /\ t # u
        /\ task_route[t] = "process"
        /\ task_route[u] = "process"
        /\ video_rows = <<t>>
        /\ saved_video[t] = t
        /\ saved_video[u] = t

\* the saved rows i, j whose clip times are 86400 s apart
AliasPairs ==
    {p \in (1..Len(db_clips)) \X (1..Len(db_clips)) :
        /\ saved_inputs[p[2]].start_time = saved_inputs[p[1]].start_time + 86400000
        /\ saved_inputs[p[2]].end_time = saved_inputs[p[1]].end_time + 86400000}

\* the same hour, minute and second, microseconds at most one apart
SameClock(a, b) ==
    /\ a[1] = b[1]
    /\ a[2] = b[2]
    /\ a[3] = b[3]
    /\ a[4] - b[4] \in {-1, 0, 1}

C27_RoundTrip ==
    db_pc = "returned" =>
        \A k \in 1..Len(returned_clips) :
            /\ returned_clips[k].start_time % 1000 = 0
            /\ returned_clips[k].start_time \div 1000 = saved_inputs[k].start_time
            /\ returned_clips[k].end_time % 1000 = 0
            /\ returned_clips[k].end_time \div 1000 = saved_inputs[k].end_time
            /\ returned_clips[k].duration > 0
            /\ returned_clips[k].duration \div 1000 =
                   saved_inputs[k].end_time - saved_inputs[k].start_time

\* C28: a process-youtube request for an unstored video whose pipeline
\* returned k >= 1 clips, and whose video row was saved, answers 200 with
\* total_clips = k.
C28_SuccessWithAllClips ==
    \A t \in Tasks :
        (/\ task_route[t] = "process"
         /\ task_pc[t] = "done"
         /\ saved_video[t] > 0
         /\ Len(task_clips[t]) >= 1)
            => (response[t] = "200" /\ total_clips[t] = Len(task_clips[t]))

\* C29: whatever prefix of the frames vad_collector has consumed, triggered is
\* true exactly when voiced_frames is non-empty, and the ring buffer holds at
\* most padding_duration_ms / frame_duration_ms entries.
C29_TriggeredIffVoiced ==
    /\ triggered <=> voiced_frames # <<>>
    /\ Len(ring_buffer) <= padding_duration_ms \div frame_duration_ms

\* a second run is being accumulated after an untrigger, with the ring
\* buffer filled to its capacity of at least two
C29_Witness ==
    /\ vad_pc = "loop"
    /\ segments # <<>>
    /\ triggered
    /\ voiced_frames # <<>>
    /\ Len(ring_buffer) >= 2
    /\ Len(ring_buffer) = padding_duration_ms \div frame_duration_ms

\* C30: with 30 ms frames and the 300 ms window, every segment spans at least
\* 10 frames (300 ms), and a segment appended while the loop goes on, which is
\* one closed by the untrigger transition, spans at least 20 frames (600 ms).
C30_MinimumSpan ==
    /\ [](\A k \in 1..Len(segments) : segments[k][2] - segments[k][1] >= 10 * 30)
    /\ [][(vad_pc' = "loop" /\ segments' # segments)
            => (/\ Len(segments') = Len(segments) + 1
                /\ Last(segments')[2] - Last(segments')[1] >= 20 * 30)]_vars

\* the shortest segment the untrigger transition can close: ten speech frames
\* flushed at the trigger, then ten non-speech frames
C30_Witness ==
    /\ vad_pc = "loop"
    /\ frame_index = 20
    /\ ~triggered
    /\ ring_buffer = <<>>
    /\ segments = <<<<0, 20 * 30>>>>

====
